---- MODULE Spec2Model ----
(***************************************************************************)
(* A model of the learning stack of NewBets:                               *)
(*   - src/src/ai/quantum-optimizer.js, second class (lines 336-643): the   *)
(*     seeded, asynchronous QuantumOptimizer (tuneHyperparametersAsync);   *)
(*   - src/src/ai/quantum-optimizer.js, first class (lines 13-320): the     *)
(*     QuantumOptimizer with optimize(objectiveFunction, paramRanges) and  *)
(*     optimizeNeuralNetwork;                                              *)
(*   - src/src/ai/neural-network.js: NeuralNetwork.                        *)
(*                                                                         *)
(* Real numbers are modelled on grids: a position is a multiple of        *)
(* 1/PosScale, an angle of the async optimizer a multiple of              *)
(* 2*pi/ThetaUnits, a declared bound a multiple of 1/2, a decoded value a  *)
(* multiple of 1/(2*PosScale).  The 32-bit state of the xorshift generator *)
(* is the set of the positions of its 1 bits.                              *)
(***************************************************************************)
EXTENDS Integers, Sequences, FiniteSets, TLC

VARIABLES
    insts,      \* the async QuantumOptimizer instances (this.population, ...)
    calls,      \* the tuneHyperparametersAsync calls: locals and position
    memo,       \* a deterministic objective: the fitness it gave each params
    qo,         \* the QuantumOptimizer instance of optimize(): this.*
    ocall,      \* the optimize() call: locals and position
    nets,       \* the NeuralNetwork objects
    heap,       \* the arrays the networks and snapshots refer to
    snaps,      \* the objects toJSON returned
    train,      \* the train() call in progress on a network
    cand,       \* optimizeNeuralNetwork: the objective's candidate
    outcome,    \* what the last fromJSON/predict/train call did
    ops         \* the calls made so far that change or make a network

tuneVars == <<insts, calls, memo>>
optVars == <<qo, ocall>>
nnVars == <<nets, heap, snaps, train, cand, outcome, ops>>
vars == <<insts, calls, memo, qo, ocall, nets, heap, snaps, train, cand,
          outcome, ops>>

(***************************************************************************)
(* Bounds of the model.                                                    *)
(***************************************************************************)
MaxIter == 3        \* the largest iteration cap a run is given
MaxFailures == 1    \* the most throwing steps (factory, train, predict) of a run

(***************************************************************************)
(* Numbers of the grids.                                                   *)
(***************************************************************************)
PosScale == 16      \* a position p stands for p/16
ThetaUnits == 32    \* an angle t stands for t*2*pi/32

\* -Infinity (quantum-optimizer.js:22, :344): below every fitness.
NegInfinity == -1000000

Max(a, b) == IF a >= b THEN a ELSE b
Min(a, b) == IF a <= b THEN a ELSE b
Clamp(lo, hi, v) == Min(hi, Max(lo, v))

RECURSIVE SumSeq(_)
SumSeq(s) == IF s = <<>> THEN 0 ELSE Head(s) + SumSeq(Tail(s))

RECURSIVE Pow2(_)
Pow2(n) == IF n = 0 THEN 1 ELSE 2 * Pow2(n - 1)

(***************************************************************************)
(* seededRng: xorshift32.  x is the set of the 1 bits of the 32-bit state. *)
(***************************************************************************)
Shl(x, n) == {i + n : i \in {j \in x : j + n <= 31}}
Shr(x, n) == {i - n : i \in {j \in x : j >= n}}
Xor(a, b) == CHOOSE r \in {(u \ w) \cup (w \ u) : u \in {a}, w \in {b}} : TRUE

\* the unsigned value of the bits lo..hi of x
RECURSIVE BitsValue(_, _, _)
BitsValue(x, lo, hi) ==
    IF hi < lo THEN 0
    ELSE (IF hi \in x THEN Pow2(hi - lo) ELSE 0) + BitsValue(x, lo, hi - 1)

\* the bits of a number below 2^31
IntBits(n) == {i \in 0..30 : (n \div Pow2(i)) % 2 = 1}

\* rng.random(): the state after one step; the float returned is x/2^32.
\* Each intermediate value is bound once: x ^= x << 13; x ^= x >>> 17;
\* x ^= x << 5
Xorshift(x) ==
    CHOOSE r \in {Xor(b, Shl(b, 5)) :
                     b \in {Xor(a, Shr(a, 17)) :
                               a \in {Xor(v, Shl(v, 13)) : v \in {x}}}} : TRUE

\* floor((x/2^32) * n) for 0 < n < 2^15
Scaled(x, n) ==
    CHOOSE r \in {(BitsValue(v, 16, 31) * n
                      + (BitsValue(v, 0, 15) * n) \div 65536) \div 65536 :
                     v \in {x}} : TRUE

\* Math.floor(rng.random() * 0xFFFFFFFF) of the state x after the step:
\* x - 1 for x > 0, and 0 for x = 0
FloorTimesMax(x) ==
    CHOOSE r \in {IF v = {} THEN {}
                  ELSE LET low == CHOOSE j \in v : \A k \in v : j <= k
                       IN  (v \ {low}) \cup (0..(low - 1)) :
                     v \in {x}} : TRUE

\* 2166136261 = 0x811C9DC5
FnvOffset == {0, 2, 6, 7, 8, 10, 11, 12, 15, 18, 19, 20, 24, 31}
\* the default seed 2463534242 = 0x92D68CA2
DefaultSeed == {1, 5, 7, 10, 11, 15, 17, 18, 20, 22, 23, 25, 28, 31}

RECURSIVE MixSeed(_, _, _)
MixSeed(s, x, n) ==
    IF n = 0 THEN s
    ELSE LET x1 == Xorshift(x)
         IN  MixSeed(Xor(s, FloorTimesMax(x1)), x1, n - 1)

\* createIndividualRng(index): the seed of the generator it returns
createIndividualRng(seed, index) ==
    MixSeed(Xor(FnvOffset, IntBits(index)), seed, 8)


(***************************************************************************)
(* The async QuantumOptimizer (quantum-optimizer.js:336-643).              *)
(***************************************************************************)

\* cos(t*2*pi/32)^2 in sixteenths, t = 0..31
CosSqTable ==
    <<16, 15, 14, 11, 8, 5, 2, 1, 0, 1, 2, 5, 8, 11, 14, 15,
      16, 15, 14, 11, 8, 5, 2, 1, 0, 1, 2, 5, 8, 11, 14, 15>>

\* thetaToQstate(theta): alpha = cos(theta) and beta = sin(theta), squared;
\* sin(theta) is cos(theta - pi/2)
thetaToQstate(theta) ==
    [alpha2 |-> CosSqTable[theta + 1],
     beta2 |-> CosSqTable[((theta + 3 * (ThetaUnits \div 4)) % ThetaUnits) + 1]]

\* Math.round(num/den): floor(num/den + 1/2)
MathRound(num, den) == (2 * num + den) \div (2 * den)

\* Number.isInteger of a bound given in halves
IsInteger(h) == h % 2 = 0

\* mapPositionToParams(position, keys, bounds): bounds[d] = <<min, max>> in
\* halves; the value of each key in units of 1/(2*PosScale)
mapPositionToParams(position, bounds) ==
    [d \in DOMAIN position |->
        LET min == bounds[d][1]
            max == bounds[d][2]
            raw == min * PosScale + position[d] * (max - min)
        IN  IF IsInteger(min) /\ IsInteger(max)
            THEN MathRound(raw, 2 * PosScale) * 2 * PosScale
            ELSE raw]

\* initializePopulation: the draws of one individual, d = 1..dim
RECURSIVE InitDims(_, _, _, _, _)
InitDims(x, d, dim, position, theta) ==
    IF d > dim THEN [x |-> x, position |-> position, theta |-> theta]
    ELSE LET x1 == Xorshift(x)
             x2 == Xorshift(x1)
         IN  InitDims(x2, d + 1, dim,
                      Append(position, Scaled(x1, PosScale)),
                      Append(theta, Scaled(x2, ThetaUnits)))

RECURSIVE InitIndividuals(_, _, _, _, _)
InitIndividuals(x, i, n, dim, population) ==
    IF i > n THEN population
    ELSE LET r == InitDims(x, 1, dim, <<>>, <<>>)
         IN  InitIndividuals(r.x, i + 1, n, dim,
                 Append(population,
                        [position |-> r.position, theta |-> r.theta,
                         fitness |-> NegInfinity]))

\* initializePopulation(dimension, rng) on the instance o.  The array and the
\* individuals are new objects (line 390, 394): generation counts them, so
\* that a reference taken from an earlier array can be told from the new one
initializePopulation(o, dim, seed) ==
    [o EXCEPT !.population = InitIndividuals(seed, 1, o.populationSize, dim, <<>>),
              !.bestSolution = <<>>,
              !.bestFitness = NegInfinity,
              !.history = <<>>,
              !.generation = @ + 1]

\* baseStep of quantumRotate, in milliradians
BaseStep(iter, maxIter) == 500 - (500 * iter) \div Max(1, maxIter - 1) + 50

\* quantumRotate: the dimensions d..; gbest is <<>> (null) or <<position>>
RECURSIVE RotateDims(_, _, _, _, _)
RotateDims(individual, gbest, base, rng, d) ==
    CHOOSE result \in {
      IF d > Len(ind.position) THEN [ind |-> ind, x |-> x]
      ELSE
        LET hasBest == gbest # <<>>
            diff == IF hasBest THEN gbest[1][d] - ind.position[d] ELSE 0
            draws == ~hasBest \/ diff = 0
            x1 == IF draws THEN Xorshift(x) ELSE x
            direction == IF draws THEN (IF 31 \notin x1 THEN -1 ELSE 1)
                         ELSE IF diff > 0 THEN 1 ELSE -1
            x2 == Xorshift(x1)
            step == (base * (300 + (700 * Scaled(x2, 1024)) \div 1024)) \div 1000
            stepUnits == (step * ThetaUnits) \div 6283
            theta == (ind.theta[d] + direction * stepUnits) % ThetaUnits
            prob == Clamp(0, PosScale, thetaToQstate(theta).alpha2)
            x3 == IF hasBest THEN x2 ELSE Xorshift(x2)
            pos == IF hasBest
                   THEN (ind.position[d] * (PosScale - prob) + gbest[1][d] * prob)
                            \div PosScale
                   ELSE Clamp(0, PosScale, ind.position[d]
                            + ((Scaled(x3, 1024) - 512) * 2 * PosScale) \div 102400)
        IN  RotateDims([ind EXCEPT !.theta[d] = theta, !.position[d] = pos],
                       gbest, base, x3, d + 1) :
      ind \in {individual}, x \in {rng}} : TRUE

quantumRotate(ind, gbest, iter, maxIter, x) ==
    RotateDims(ind, gbest, BaseStep(iter, maxIter), x, 1)

\* whether quantumTunnel fires on the generator state x: rng.random() < p
TunnelFires(x, tunnelPct) == Scaled(Xorshift(x), 100) < tunnelPct

\* the dimension quantumTunnel picks when it fires
TunnelDim(ind, x) == Scaled(Xorshift(Xorshift(x)), Len(ind.position)) + 1

\* quantumTunnel without the clamp of line 451
quantumTunnelUnclamped(ind, x, tunnelPct) ==
    IF TunnelFires(x, tunnelPct)
    THEN LET x2 == Xorshift(Xorshift(x))
             dim == TunnelDim(ind, x)
             x3 == Xorshift(x2)
             x4 == Xorshift(x3)
         IN  [ind EXCEPT
                !.position[dim] = ind.position[dim]
                    + ((Scaled(x3, 1024) - 512) * 2 * PosScale) \div 10240,
                !.theta[dim] = (ind.theta[dim] + Scaled(x4, ThetaUnits \div 4))
                                   % ThetaUnits]
    ELSE ind

\* quantumTunnel(individual, rng, tunnelProbability)
quantumTunnel(ind, x, tunnelPct) ==
    IF TunnelFires(x, tunnelPct)
    THEN LET x2 == Xorshift(Xorshift(x))
             dim == TunnelDim(ind, x)
             x3 == Xorshift(x2)
             x4 == Xorshift(x3)
         IN  [ind EXCEPT
                !.position[dim] = Clamp(0, PosScale, ind.position[dim]
                    + ((Scaled(x3, 1024) - 512) * 2 * PosScale) \div 10240),
                !.theta[dim] = (ind.theta[dim] + Scaled(x4, ThetaUnits \div 4))
                                   % ThetaUnits]
    ELSE ind

\* lines 619-624 steering every individual toward the first of the
\* population instead of the global best
RECURSIVE ApplyOperatorsTowardFirst(_, _, _, _, _, _, _)
ApplyOperatorsTowardFirst(population, gbest, iter, maxIter, seed, tunnelPct, i) ==
    IF i > Len(population) THEN population
    ELSE CHOOSE result \in {
            ApplyOperatorsTowardFirst(
                [population EXCEPT ![i] = quantumTunnel(r.ind, r.x, tunnelPct)],
                gbest, iter, maxIter, seed, tunnelPct, i + 1) :
            r \in {quantumRotate(population[i], <<population[1].position>>,
                       iter, maxIter,
                       createIndividualRng(seed,
                           (i - 1) + iter * Len(population) + 12345))}} : TRUE

\* lines 619-624: rotate and tunnel every individual, in order
RECURSIVE ApplyOperators(_, _, _, _, _, _, _)
ApplyOperators(population, gbest, iter, maxIter, seed, tunnelPct, i) ==
    IF i > Len(population) THEN population
    ELSE CHOOSE result \in {
            ApplyOperators(
                [population EXCEPT ![i] = quantumTunnel(r.ind, r.x, tunnelPct)],
                gbest, iter, maxIter, seed, tunnelPct, i + 1) :
            r \in {quantumRotate(population[i], gbest, iter, maxIter,
                       createIndividualRng(seed,
                           (i - 1) + iter * Len(population) + 12345))}} : TRUE

\* lines 627-631: the spread of the last 8 best-fitness values is below 1e-9
Converged(history) ==
    /\ Len(history) > 8
    /\ LET recent == {history[k].bestFitness : k \in (Len(history) - 7)..Len(history)}
       IN  \A a \in recent, b \in recent : a = b


(***************************************************************************)
(* tuneHyperparametersAsync (quantum-optimizer.js:522-642).  A call c has  *)
(* its options in calls[c].cfg and runs on the instance calls[c].inst.     *)
(* pc: "idle" before the call, "eval" at line 560 for individual i,        *)
(* "train" at line 586, "score" at line 589, "update" at line 605,         *)
(* "return" at line 637, "done" once resolved, "failed" once rejected.     *)
(***************************************************************************)
CallIds == {1, 2}
PopSizes == {1, 2}              \* options.populationSize
\* validationSet: the labels of its rows
ValidationSet == <<1, 0>>
ValLen == Len(ValidationSet)

\* options.seed, options.tunnelProbability (in hundredths), hyperparamRanges
\* (one <<min, max>> per key, in halves) and the kind of model modelFactory
\* builds: train returns a promise, train is synchronous, fit only, neither
\* options.seed is <<>> when the call gives none
Setups ==
    {[seed |-> <<>>, tunnelPct |-> 2, bounds |-> << <<0, 2>> >>,
      kind |-> "sync"],
     [seed |-> <<DefaultSeed>>, tunnelPct |-> 60, bounds |-> << <<1, 4>> >>,
      kind |-> "promise"],
     [seed |-> <<IntBits(12345)>>, tunnelPct |-> 60,
      bounds |-> << <<2, 6>>, <<1, 2>> >>, kind |-> "sync"],
     [seed |-> <<IntBits(12345)>>, tunnelPct |-> 2, bounds |-> << <<3, 4>> >>,
      kind |-> "fit"],
     [seed |-> <<{}>>, tunnelPct |-> 2, bounds |-> << <<0, 3>> >>,
      kind |-> "none"]}

Configs ==
    {[seed |-> s.seed, tunnelPct |-> s.tunnelPct, bounds |-> s.bounds,
      kind |-> s.kind, maxIterations |-> n, populationSize |-> p,
      epochsPerCandidate |-> 2] : s \in Setups, n \in 1..MaxIter, p \in PopSizes}

\* new QuantumOptimizer({populationSize, maxIterations, seed}), lines 337-346
NewOptimizer(cfg, seed) ==
    [populationSize |-> cfg.populationSize, maxIterations |-> cfg.maxIterations,
     seed |-> seed, population |-> <<>>, bestSolution |-> <<>>,
     bestFitness |-> NegInfinity, history |-> <<>>, generation |-> 0]

NewCall(k, cfg) ==
    [inst |-> k, cfg |-> cfg, pc |-> "idle", seed |-> {}, iter |-> 0, i |-> 1,
     model |-> <<>>, individual |-> <<>>, generation |-> 0, last |-> <<>>,
     failures |-> 0, evaluations |-> 0, early |-> FALSE, traj |-> <<>>,
     result |-> <<>>]

Deterministic == memo # {<<"stochastic">>}

\* whether a step of the call f may throw: the objective of a deterministic
\* run does not, and a run has at most MaxFailures throwing steps
MayThrow(f) ==
    IF Deterministic \/ f.failures >= MaxFailures THEN {FALSE} ELSE BOOLEAN

\* a seed of an instance that is not the call's
SeedOfInstance(f, o) == o.seed

\* line 526: the seed of the call
SeedOfCall(f, o) == IF f.cfg.seed # <<>> THEN f.cfg.seed[1] ELSE o.seed

\* lines 523-541 and the entry of the loop at line 557
Start(c) ==
    /\ c \in DOMAIN calls
    /\ LET f == calls[c]
           o == insts[f.inst]
           o1 == [o EXCEPT !.populationSize = f.cfg.populationSize,
                           !.maxIterations = f.cfg.maxIterations]
       IN  /\ f.pc = "idle"
           /\ insts' = [insts EXCEPT ![f.inst] =
                           initializePopulation(o1, Len(f.cfg.bounds),
                                                SeedOfCall(f, o))]
           /\ calls' = [calls EXCEPT ![c] =
                           [f EXCEPT !.pc = "eval", !.seed = SeedOfCall(f, o),
                                     !.iter = 0, !.i = 1]]
    /\ UNCHANGED <<memo, optVars, nnVars>>

\* lines 559-583: the loop test, then decode individual i and build its
\* model; modelFactory may throw.  individual is the object of line 560
EvalStart(c) ==
    /\ c \in DOMAIN calls
    /\ LET f == calls[c]
           o == insts[f.inst]
       IN  /\ f.pc = "eval"
           /\ \E factoryThrows \in MayThrow(f) :
                LET params == mapPositionToParams(o.population[f.i].position,
                                                  f.cfg.bounds)
                IN  calls' = [calls EXCEPT ![c] =
                       IF f.i > Len(o.population)
                       THEN [f EXCEPT !.pc = "update"]
                       ELSE IF factoryThrows
                       THEN [f EXCEPT !.pc = "failed",
                                      !.failures = f.failures + 1,
                                      !.last = <<[i |-> f.i, threw |-> TRUE,
                                                  scored |-> FALSE,
                                                  fitness |-> 0]>>]
                       ELSE [f EXCEPT !.pc = "train",
                                      !.last = <<>>,
                                      !.individual = <<o.population[f.i]>>,
                                      !.generation = o.generation,
                                      !.model = <<[params |-> params,
                                                   trainCalls |-> <<>>,
                                                   threw |-> FALSE]>>]]
    /\ UNCHANGED <<insts, memo, optVars, nnVars>>

\* the epochs arguments of the model.train calls trainModelAsync makes on a
\* synchronous model after the first (lines 467-475); 0 stands for the call
\* with no epochs argument of line 472
RECURSIVE SyncSteps(_, _, _, _)
SyncSteps(e, epochs, stepThrows, retryThrows) ==
    IF e >= epochs THEN <<>>
    ELSE IF ~stepThrows THEN <<1>> \o SyncSteps(e + 1, epochs, stepThrows, retryThrows)
    ELSE IF retryThrows THEN <<1, 0>>
    ELSE <<1, 0>> \o SyncSteps(e + 1, epochs, stepThrows, retryThrows)

\* how a model's training may throw: not at all, in the first call, in every
\* single-epoch call (the call of line 472 succeeding), or in those and line 472
Throwings == {"no", "first", "step", "retry"}

\* trainModelAsync(model, inputs, targets, epochs, yieldEvery), lines 458-493
trainModelAsync(m, kind, epochs, throwing) ==
    CASE kind = "none" -> m
      [] kind \in {"fit", "promise"} ->
            [m EXCEPT !.trainCalls = <<epochs>>, !.threw = throwing # "no"]
      [] OTHER ->
            IF throwing = "first"
            THEN [m EXCEPT !.trainCalls = <<epochs>>, !.threw = TRUE]
            ELSE [m EXCEPT !.trainCalls = <<epochs>>
                               \o SyncSteps(0, epochs, throwing # "no",
                                            throwing = "retry"),
                           !.threw = throwing # "no"]

\* line 586
TrainModel(c) ==
    /\ c \in DOMAIN calls
    /\ LET f == calls[c]
       IN  /\ f.pc = "train"
           /\ \E throwing \in
                    IF TRUE \in MayThrow(f) /\ f.cfg.kind # "none"
                    THEN IF f.cfg.kind = "sync" THEN Throwings ELSE {"no", "first"}
                    ELSE {"no"} :
                calls' = [calls EXCEPT ![c] =
                   [f EXCEPT !.pc = "score",
                             !.failures = IF throwing = "no" THEN @ ELSE @ + 1,
                             !.model = <<trainModelAsync(f.model[1], f.cfg.kind,
                                           f.cfg.epochsPerCandidate, throwing)>>]]
    /\ UNCHANGED <<insts, memo, optVars, nnVars>>

\* evaluateModelAsync (lines 497-515): correct rows over rows, in 1/ValLen;
\* a row whose predict throws counts as incorrect
evaluateModelAsync(correct) == IF ValLen > 0 THEN correct ELSE 0

\* the best update of lines 593-599 storing the fitness without the solution
TrackBestFitnessOnly(o, individual, fitness, bounds) ==
    IF fitness > o.bestFitness THEN [o EXCEPT !.bestFitness = fitness] ELSE o

\* the best update of lines 593-599 taking a candidate as good as the best
TrackBestOnTie(o, individual, fitness, bounds) ==
    IF fitness >= o.bestFitness
    THEN [o EXCEPT !.bestFitness = fitness,
                   !.bestSolution =
                       <<[position |-> individual.position,
                          params |-> mapPositionToParams(individual.position,
                                                         bounds)]>>]
    ELSE o

\* the best update of lines 593-599 without its comparison
TrackBestAlways(o, individual, fitness, bounds) ==
    [o EXCEPT !.bestFitness = fitness,
              !.bestSolution =
                  <<[position |-> individual.position,
                     params |-> mapPositionToParams(individual.position, bounds)]>>]

\* lines 592-599: track best
TrackBest(o, individual, fitness, bounds) ==
    IF fitness > o.bestFitness
    THEN [o EXCEPT !.bestFitness = fitness,
                   !.bestSolution =
                       <<[position |-> individual.position,
                          params |-> mapPositionToParams(individual.position,
                                                         bounds)]>>]
    ELSE o

\* line 559 skipping an individual
SkipIndividual(i) == i + 2

\* line 559: i++
NextIndividual(i) == i + 1

\* lines 589-602: score individual i, store its fitness, track the best.
\* The fitness is stored in the object of line 560, which is in
\* this.population unless initializePopulation has replaced the array since
Score(c) ==
    /\ c \in DOMAIN calls
    /\ LET f == calls[c]
           o == insts[f.inst]
           m == f.model[1]
           current == f.generation = o.generation
       IN  /\ f.pc = "score"
           /\ \E correct \in 0..ValLen, threw \in MayThrow(f) :
                LET fitness == evaluateModelAsync(correct)
                    o1 == IF current
                          THEN [o EXCEPT !.population[f.i].fitness = fitness]
                          ELSE o
                    individual == IF current THEN o1.population[f.i]
                                  ELSE f.individual[1]
                    o2 == TrackBest(o1, individual, fitness, f.cfg.bounds)
                IN  /\ threw => correct < ValLen
                    /\ Deterministic =>
                           \A e \in memo : e[1] = m.params => e[2] = fitness
                    /\ memo' = IF Deterministic
                               THEN memo \cup {<<m.params, fitness>>} ELSE memo
                    /\ insts' = [insts EXCEPT ![f.inst] = o2]
                    /\ calls' = [calls EXCEPT ![c] =
                          [f EXCEPT !.pc = IF NextIndividual(f.i)
                                                  <= Len(o.population)
                                           THEN "eval" ELSE "update",
                                    !.i = NextIndividual(f.i),
                                    !.model = <<>>,
                                    !.individual = <<>>,
                                    !.evaluations = @ + 1,
                                    !.failures = IF threw THEN @ + 1 ELSE @,
                                    !.last = <<[i |-> f.i,
                                                threw |-> m.threw \/ threw,
                                                scored |-> TRUE,
                                                fitness |-> fitness]>>]]
    /\ UNCHANGED <<optVars, nnVars>>

\* lines 605-634: the record of the iteration, the quantum operators, the
\* convergence check and the step to the next iteration
EndIteration(c) ==
    /\ c \in DOMAIN calls
    /\ LET f == calls[c]
           o == insts[f.inst]
           sum == SumSeq([k \in DOMAIN o.population |->
                             IF o.population[k].fitness = NegInfinity THEN 0
                             ELSE o.population[k].fitness])
           history == Append(o.history,
                             [iteration |-> f.iter, bestFitness |-> o.bestFitness,
                              avgFitness |-> sum \div Max(1, Len(o.population))])
           gbest == IF o.bestSolution = <<>> THEN <<>>
                    ELSE <<o.bestSolution[1].position>>
           stop == Converged(history) \/ f.iter + 1 >= f.cfg.maxIterations
       IN  /\ f.pc = "update"
           /\ \E population \in {ApplyOperators(o.population, gbest, f.iter,
                    f.cfg.maxIterations, f.seed, f.cfg.tunnelPct, 1)} :
                /\ insts' = [insts EXCEPT ![f.inst] =
                                [o EXCEPT !.history = history,
                                          !.population = population]]
                /\ calls' = [calls EXCEPT ![c] =
                                [f EXCEPT !.pc = IF stop THEN "return" ELSE "eval",
                                          !.iter = f.iter + 1, !.i = 1,
                                          !.early = Converged(history),
                                          !.traj = Append(f.traj,
                                              [k \in DOMAIN population |->
                                                  [position |-> population[k].position,
                                                   theta |-> population[k].theta]])]]
    /\ UNCHANGED <<memo, optVars, nnVars>>

\* lines 637-641
Finish(c) ==
    /\ c \in DOMAIN calls
    /\ LET f == calls[c]
           o == insts[f.inst]
       IN  /\ f.pc = "return"
           /\ calls' = [calls EXCEPT ![c] =
                           [f EXCEPT !.pc = "done",
                                     !.result = <<[solution |->
                                                      IF o.bestSolution = <<>>
                                                      THEN <<>>
                                                      ELSE o.bestSolution[1].params,
                                                   fitness |-> o.bestFitness,
                                                   history |-> o.history]>>]]
    /\ UNCHANGED <<insts, memo, optVars, nnVars>>

(***************************************************************************)
(* The QuantumOptimizer of optimize() (quantum-optimizer.js:13-320).       *)
(* An angle t stands for t*rotationAngle = t*0.05*pi, so pi/2 is 10.  A    *)
(* range {min, max, type} has its bounds in halves; for type "log" the     *)
(* bounds and the decoded value are given by their logarithms (exp is      *)
(* increasing: a value lies in [min, max] iff its logarithm lies in        *)
(* [log min, log max], and the comparisons of _updatePopulation agree).    *)
(* A fitness is a whole number; Math.random() is a free choice.            *)
(***************************************************************************)
QuarterTurn == 10   \* Math.PI / 2 in units of rotationAngle (line 19)
Patience == 10      \* this.patience (line 26)
MaxOptIter == 2     \* the largest maxIterations an optimize() call is given

ProbScale == 1000   \* a probability p stands for p/1000

\* cos(t*pi/20)^2 in thousandths, t = 0..10
DecodeCosSqTable == <<1000, 976, 905, 794, 655, 500, 345, 206, 95, 24, 0>>

\* _createQuantumState(theta): alpha = cos(theta) and beta = sin(theta),
\* squared, in thousandths; sin(theta) is cos(pi/2 - theta)
createQuantumState(theta) ==
    [theta |-> theta, alpha2 |-> DecodeCosSqTable[theta + 1],
     beta2 |-> DecodeCosSqTable[QuarterTurn - theta + 1]]

\* _decodeParameter(theta, range), in units of 1/(2*ProbScale)
decodeParameter(theta, range) ==
    LET prob == DecodeCosSqTable[theta + 1]
        value == range.min * ProbScale + prob * (range.max - range.min)
    IN  IF range.type = "int" THEN MathRound(value, 2 * ProbScale) * 2 * ProbScale
        ELSE value

\* _quantumRotate(theta, direction)
quantumRotate1(theta, direction) ==
    Max(0, Min(QuarterTurn, theta + direction))

\* _quantumTunnel(theta): jump is -1 when Math.random() >= tunnelingProbability,
\* else the angle Math.random() * Math.PI / 2 it returns
quantumTunnel1(theta, jump) == IF jump >= 0 THEN jump ELSE theta

\* Math.random() * Math.PI / 2 at line 58, and at line 113
InitThetas == {2, 8}
TunnelJumps == {-1, 3}
FitnessValues == 0..2

\* paramRanges and options.populationSize of an optimize() call, and whether
\* the instance has run optimize() before
OptSetups ==
    {[ranges |-> <<[min |-> 1, max |-> 2, type |-> "float"]>>,
      populationSize |-> 2, used |-> FALSE],
     [ranges |-> <<[min |-> 0, max |-> 5, type |-> "int"]>>,
      populationSize |-> 2, used |-> FALSE],
     [ranges |-> <<[min |-> 2, max |-> 6, type |-> "int"]>>,
      populationSize |-> 2, used |-> TRUE],
     [ranges |-> <<[min |-> -18, max |-> -9, type |-> "log"],
                   [min |-> 0, max |-> 1, type |-> "float"]>>,
      populationSize |-> 1, used |-> FALSE]}

\* _updatePopulation (lines 121-152): individual k, parameters i..; b is the
\* index of bestIndividual, an element of the population itself
RECURSIVE UpdateParams(_, _, _, _, _, _)
UpdateParams(population, b, ranges, jumps, k, i) ==
    IF i > Len(ranges) THEN population
    ELSE LET individual == population[k]
             currentTheta == individual.quantumStates[i].theta
             bestValue == population[b].params[i]
             currentValue == individual.params[i]
             direction == IF bestValue > currentValue THEN 1
                          ELSE IF bestValue < currentValue THEN -1 ELSE 0
             newTheta == quantumTunnel1(quantumRotate1(currentTheta, direction),
                                        jumps[k][i])
         IN  UpdateParams(
                 [population EXCEPT
                     ![k].quantumStates[i] = createQuantumState(newTheta),
                     ![k].params[i] = decodeParameter(newTheta, ranges[i])],
                 b, ranges, jumps, k, i + 1)

RECURSIVE updatePopulation(_, _, _, _, _)
updatePopulation(population, b, ranges, jumps, k) ==
    IF k > Len(population) THEN population
    ELSE updatePopulation(UpdateParams(population, b, ranges, jumps, k, 1),
                          b, ranges, jumps, k + 1)

\* _calculateVariance(values) times the square of the number of values
calculateVariance(values) ==
    IF values = <<>> THEN 0
    ELSE Len(values) * SumSeq([k \in DOMAIN values |-> values[k] * values[k]])
            - SumSeq(values) * SumSeq(values)

\* _checkConvergence (lines 157-170): the counter it leaves.  The fitness
\* grid is far coarser than convergenceThreshold = 1e-6, so the variance is
\* below the threshold exactly when it is 0
checkConvergenceCounter(o) ==
    IF Len(o.fitnessHistory) < 2 THEN o.convergenceCounter
    ELSE LET n == Len(o.fitnessHistory)
             recentFitness == SubSeq(o.fitnessHistory, Max(1, n - 4), n)
         IN  IF calculateVariance(recentFitness) = 0
             THEN o.convergenceCounter + 1 ELSE 0

checkConvergence(o) ==
    /\ Len(o.fitnessHistory) >= 2
    /\ checkConvergenceCounter(o) >= o.patience

\* new QuantumOptimizer(options), lines 14-27
NewOptimizer1(populationSize, maxIterations) ==
    [populationSize |-> populationSize, maxIterations |-> maxIterations,
     bestFitness |-> NegInfinity, bestParams |-> <<>>, fitnessHistory |-> <<>>,
     convergenceCounter |-> 0, patience |-> Patience]

\* the instance after an earlier optimize() call that returned: one
\* individual, maxIterations = 1, fitness 1 and then 2
UsedOptimizer1(populationSize, maxIterations, params) ==
    [NewOptimizer1(populationSize, maxIterations) EXCEPT
        !.bestFitness = 2, !.bestParams = <<params>>, !.fitnessHistory = <<1, 2>>]

(***************************************************************************)
(* optimize(objectiveFunction, paramRanges), lines 188-243.  pc: "idle",   *)
(* "initial" at line 194 for individual i, "best" at line 198, "update" at *)
(* line 209, "eval" at line 213 for individual i, "end" at line 223,       *)
(* "return" at line 237, "done".                                           *)
(***************************************************************************)
\* line 190: _initializePopulation
OptStart ==
    /\ ocall # <<>>
    /\ ocall.pc = "idle"
    /\ \E thetas \in [1..qo.populationSize -> [1..Len(ocall.ranges) -> InitThetas]] :
         ocall' = [ocall EXCEPT
            !.pc = "initial", !.i = 1, !.first = Len(qo.fitnessHistory) + 1,
            !.population =
               [k \in 1..qo.populationSize |->
                  [quantumStates |-> [i \in 1..Len(ocall.ranges) |->
                                         createQuantumState(thetas[k][i])],
                   params |-> [i \in 1..Len(ocall.ranges) |->
                                  decodeParameter(thetas[k][i], ocall.ranges[i])],
                   fitness |-> NegInfinity]]]
    /\ UNCHANGED <<qo, tuneVars, nnVars>>

\* lines 193-195: the objective on individual i of the initial population
OptEvaluateInitial ==
    /\ ocall # <<>>
    /\ ocall.pc = "initial"
    /\ \E fitness \in FitnessValues :
         ocall' = [ocall EXCEPT
            !.population[ocall.i].fitness = fitness,
            !.evaluations = @ + 1,
            !.i = @ + 1,
            !.pc = IF ocall.i < Len(ocall.population) THEN "initial" ELSE "best"]
    /\ UNCHANGED <<qo, tuneVars, nnVars>>

\* population.reduce of lines 198-200: the index of the initial best
RECURSIVE ReduceBest(_, _, _)
ReduceBest(population, best, k) ==
    IF k > Len(population) THEN best
    ELSE ReduceBest(population,
                    IF population[k].fitness > population[best].fitness
                    THEN k ELSE best,
                    k + 1)

\* lines 198-204
OptInitialBest ==
    /\ ocall # <<>>
    /\ ocall.pc = "best"
    /\ LET b == ReduceBest(ocall.population, 1, 2)
       IN  /\ ocall' = [ocall EXCEPT !.bestIndividual = b, !.iteration = 0,
                           !.pc = IF 0 < qo.maxIterations THEN "update" ELSE "return"]
           /\ qo' = [qo EXCEPT
                        !.bestFitness = ocall.population[b].fitness,
                        !.bestParams = <<ocall.population[b].params>>,
                        !.fitnessHistory = Append(@, ocall.population[b].fitness)]
    /\ UNCHANGED <<tuneVars, nnVars>>

\* line 209
OptUpdate ==
    /\ ocall # <<>>
    /\ ocall.pc = "update"
    /\ \E jumps \in [1..Len(ocall.population) ->
                        [1..Len(ocall.ranges) -> TunnelJumps]] :
         ocall' = [ocall EXCEPT
            !.pc = "eval", !.i = 1,
            !.population = updatePopulation(ocall.population,
                               ocall.bestIndividual, ocall.ranges, jumps, 1)]
    /\ UNCHANGED <<qo, tuneVars, nnVars>>

\* lines 212-221: the objective on individual i, and the global best
OptEvaluate ==
    /\ ocall # <<>>
    /\ ocall.pc = "eval"
    /\ \E fitness \in FitnessValues :
         LET better == fitness > qo.bestFitness
         IN  /\ ocall' = [ocall EXCEPT
                   !.population[ocall.i].fitness = fitness,
                   !.evaluations = @ + 1,
                   !.bestIndividual = IF better THEN ocall.i ELSE @,
                   !.i = @ + 1,
                   !.pc = IF ocall.i < Len(ocall.population) THEN "eval" ELSE "end"]
             /\ qo' = IF better
                      THEN [qo EXCEPT
                              !.bestFitness = fitness,
                              !.bestParams = <<ocall.population[ocall.i].params>>]
                      ELSE qo
    /\ UNCHANGED <<tuneVars, nnVars>>

\* lines 223-235: the history, the convergence check, the next iteration
OptEndIteration ==
    /\ ocall # <<>>
    /\ ocall.pc = "end"
    /\ LET o1 == [qo EXCEPT !.fitnessHistory = Append(@, qo.bestFitness)]
           converged == checkConvergence(o1)
       IN  /\ qo' = [o1 EXCEPT !.convergenceCounter = checkConvergenceCounter(o1)]
           /\ ocall' = [ocall EXCEPT
                 !.iteration = @ + 1,
                 !.pc = IF converged \/ ocall.iteration + 1 >= qo.maxIterations
                        THEN "return" ELSE "update"]
    /\ UNCHANGED <<tuneVars, nnVars>>

\* lines 237-242
OptReturn ==
    /\ ocall # <<>>
    /\ ocall.pc = "return"
    /\ ocall' = [ocall EXCEPT
          !.pc = "done",
          !.result = <<[params |-> qo.bestParams, fitness |-> qo.bestFitness,
                        iterations |-> Len(qo.fitnessHistory),
                        history |-> qo.fitnessHistory]>>]
    /\ UNCHANGED <<qo, tuneVars, nnVars>>

NewOptimizeCall(ranges) ==
    [pc |-> "idle", ranges |-> ranges, population |-> <<>>, i |-> 1,
     bestIndividual |-> 1, iteration |-> 0, first |-> 1, evaluations |-> 0,
     result |-> <<>>]

NoOptimize == /\ qo = <<>> /\ ocall = <<>>
NoNetwork ==
    /\ nets = <<>> /\ heap = <<>> /\ snaps = <<>> /\ train = <<>>
    /\ cand = <<>> /\ outcome = <<>> /\ ops = 0
NoTune == /\ insts = <<>> /\ calls = <<>> /\ memo = {<<"stochastic">>}

TuneInit ==
    /\ \E cfg \in Configs :
          /\ insts = <<NewOptimizer(cfg, DefaultSeed)>>
          /\ calls = <<NewCall(1, cfg)>>
    /\ memo = {<<"stochastic">>}
    /\ NoOptimize
    /\ NoNetwork

TuneNext ==
    \/ \E c \in CallIds : Start(c)
    \/ \E c \in CallIds : EvalStart(c)
    \/ \E c \in CallIds : TrainModel(c)
    \/ \E c \in CallIds : Score(c)
    \/ \E c \in CallIds : EndIteration(c)
    \/ \E c \in CallIds : Finish(c)

OptInit ==
    /\ \E s \in OptSetups, n \in 1..MaxOptIter :
          /\ qo = IF s.used
                  THEN UsedOptimizer1(s.populationSize, n,
                          [i \in 1..Len(s.ranges) |->
                              decodeParameter(5, s.ranges[i])])
                  ELSE NewOptimizer1(s.populationSize, n)
          /\ ocall = NewOptimizeCall(s.ranges)
    /\ NoTune
    /\ NoNetwork

OptNext ==
    \/ OptStart
    \/ OptEvaluateInitial
    \/ OptInitialBest
    \/ OptUpdate
    \/ OptEvaluate
    \/ OptEndIteration
    \/ OptReturn

\* two tuneHyperparametersAsync runs with the same options on two instances,
\* one after the other, with an objective that is a function of the
\* hyperparameters: memo holds the fitness it has given so far.  The
\* instances were constructed with the same seed when the options give none
DetInit ==
    /\ \E cfg \in Configs :
          /\ insts = <<NewOptimizer(cfg, DefaultSeed),
                       NewOptimizer(cfg, IF cfg.seed = <<>> THEN DefaultSeed
                                         ELSE IntBits(7))>>
          /\ calls = <<NewCall(1, cfg), NewCall(2, cfg)>>
    /\ memo = {}
    /\ NoOptimize
    /\ NoNetwork

Turn(c) == c = 1 \/ (c \in DOMAIN calls /\ calls[1].pc = "done")

DetNext ==
    \/ \E c \in CallIds : Turn(c) /\ Start(c)
    \/ \E c \in CallIds : Turn(c) /\ EvalStart(c)
    \/ \E c \in CallIds : Turn(c) /\ TrainModel(c)
    \/ \E c \in CallIds : Turn(c) /\ Score(c)
    \/ \E c \in CallIds : Turn(c) /\ EndIteration(c)
    \/ \E c \in CallIds : Turn(c) /\ Finish(c)

SpecDet == DetInit /\ [][DetNext]_vars

MaxConvIter == 10   \* the iteration cap of a run long enough to converge

\* a tuneHyperparametersAsync call with maxIterations = MaxConvIter and an
\* objective that is a function of the hyperparameters
ConvInit ==
    /\ \E s \in Setups, p \in PopSizes :
          LET cfg == [seed |-> s.seed, tunnelPct |-> s.tunnelPct,
                      bounds |-> s.bounds, kind |-> s.kind,
                      maxIterations |-> MaxConvIter, populationSize |-> p,
                      epochsPerCandidate |-> 2]
          IN  /\ insts = <<NewOptimizer(cfg, DefaultSeed)>>
              /\ calls = <<NewCall(1, cfg)>>
    /\ memo = {}
    /\ NoOptimize
    /\ NoNetwork

SpecConv == ConvInit /\ [][TuneNext]_vars

\* two tuneHyperparametersAsync calls with the same options and
\* maxIterations = 1 on one instance, the second made while the first is in
\* flight or after it
ConcInit ==
    /\ \E cfg \in Configs :
          /\ cfg.maxIterations = 1
          /\ cfg.kind \in {"promise", "none"}
          /\ insts = <<NewOptimizer(cfg, DefaultSeed)>>
          /\ calls = <<NewCall(1, cfg), NewCall(1, cfg)>>
    /\ memo = {<<"stochastic">>}
    /\ NoOptimize
    /\ NoNetwork

\* the call f is suspended at an await: in trainModelAsync (line 586), in
\* evaluateModelAsync (589), at the setTimeout between candidates (602) or
\* at the one between iterations (634).  The call runs from line 523 to its
\* first await, and from the break of line 630 to its return, in one piece
AtYield(f) ==
    \/ f.pc \in {"train", "score"}
    \/ /\ f.pc \in {"eval", "update"}
       /\ f.iter > 0 \/ f.i > 1
       /\ f.i = 1
          \/ (f.i - 1) % Max(1, insts[f.inst].populationSize \div 4) = 0
    \/ f.pc = "return" /\ ~f.early

\* the event loop runs the call c when every other call is suspended, has
\* not been made or has returned
Runnable(c) ==
    /\ c \in DOMAIN calls
    /\ \A d \in DOMAIN calls \ {c} :
          calls[d].pc \in {"idle", "done", "failed"} \/ AtYield(calls[d])

ConcNext ==
    \/ \E c \in CallIds : Runnable(c) /\ Start(c)
    \/ \E c \in CallIds : Runnable(c) /\ EvalStart(c)
    \/ \E c \in CallIds : Runnable(c) /\ TrainModel(c)
    \/ \E c \in CallIds : Runnable(c) /\ Score(c)
    \/ \E c \in CallIds : Runnable(c) /\ EndIteration(c)
    \/ \E c \in CallIds : Runnable(c) /\ Finish(c)

SpecConc == ConcInit /\ [][ConcNext]_vars

(***************************************************************************)
(* The NeuralNetwork (neural-network.js).                                  *)
(* A weight, bias, velocity, activation, input, target or loss w stands    *)
(* for w/Unit and a hyperparameter h for h/HyperUnit; a product is taken   *)
(* to the nearest multiple of the grid.  NaN is the value JavaScript gives *)
(* an arithmetic operation on undefined; it is no number, and every        *)
(* comparison with it is false.  An array is a cell of the heap: a network *)
(* or a snapshot holds the cell's index, so two objects that hold the same *)
(* array hold the same index.  Math.random() is a free choice.             *)
(***************************************************************************)
Unit == 1000
HyperUnit == 100000

Infinity == -NegInfinity
NaN == NegInfinity - 1

Nearest(n, d) == (2 * n + d) \div (2 * d)

Plus(a, b) == IF a = NaN \/ b = NaN THEN NaN ELSE a + b
Minus(a, b) == IF a = NaN \/ b = NaN THEN NaN ELSE a - b
Times(a, b) == IF a = NaN \/ b = NaN THEN NaN ELSE Nearest(a * b, Unit)
\* h * a for a hyperparameter h
Scale(h, a) == IF a = NaN THEN NaN ELSE Nearest(h * a, HyperUnit)
\* a / n for a count n; 0/0 is NaN
Over(a, n) ==
    IF a = NaN \/ (n = 0 /\ a = 0) THEN NaN
    ELSE IF n = 0 THEN Infinity
    ELSE Nearest(a, n)
Less(a, b) == a # NaN /\ b # NaN /\ a < b

\* constructor, lines 23-27: the default hyperparameters
DefaultLearningRate == 100
DefaultMomentum == 90000
DefaultL2Lambda == 10
DefaultDropoutRate == 20000
DefaultLeakyAlpha == 1000
\* line 34
DefaultPatience == 10

\* lines 69-72 and 420-426: a zero velocity for every weight and every bias
ZeroVelocities(weights, biases) ==
    [i \in DOMAIN weights |->
        [weight |-> [j \in DOMAIN weights[i] |->
                        [k \in DOMAIN weights[i][j] |-> 0]],
         bias |-> [j \in DOMAIN biases[i] |-> 0]]]

\* the arrays a constructor call allocates, with the weights and biases
\* _initializeWeights drew (lines 31-32, 38-39, 49-74)
NewCell(weights, biases) ==
    [weights |-> weights, biases |-> biases,
     trainingLoss |-> <<>>, validationLoss |-> <<>>]

\* constructor(inputSize, hiddenLayers, outputSize), lines 16-43, for the
\* object whose arrays are in cell a
NewNetwork(inputSize, hiddenLayers, outputSize, a, weights, biases) ==
    [inputSize |-> inputSize, hiddenLayers |-> hiddenLayers,
     outputSize |-> outputSize,
     layers |-> <<inputSize>> \o hiddenLayers \o <<outputSize>>,
     learningRate |-> DefaultLearningRate, momentum |-> DefaultMomentum,
     l2Lambda |-> DefaultL2Lambda, dropoutRate |-> DefaultDropoutRate,
     leakyAlpha |-> DefaultLeakyAlpha,
     epochs |-> 0, trainingLoss |-> a, validationLoss |-> a,
     bestLoss |-> Infinity, patience |-> DefaultPatience, patienceCounter |-> 0,
     weights |-> a, biases |-> a,
     velocities |-> ZeroVelocities(weights, biases)]

\* _leakyReLU(x), lines 80-82
leakyReLU(nn, x) == IF Less(0, x) THEN x ELSE Scale(nn.leakyAlpha, x)

\* the product of e with _leakyReLUDerivative(x), lines 84-86
TimesLeakyReLUDerivative(nn, e, x) ==
    IF Less(0, x) THEN e ELSE Scale(nn.leakyAlpha, e)

\* 1/(1+exp(-x)) at x = -6, -5, ..., 6
SigmoidTable == <<2, 7, 18, 47, 119, 269, 500, 731, 881, 953, 982, 993, 998>>

\* _sigmoid(x), lines 92-94, by linear interpolation between whole x
sigmoid(x) ==
    IF x = NaN THEN NaN
    ELSE LET c == Clamp(-6 * Unit, 6 * Unit, x) + 6 * Unit
             i == Min(c \div Unit + 1, Len(SigmoidTable) - 1)
             lo == SigmoidTable[i]
             hi == SigmoidTable[i + 1]
         IN  lo + Nearest((hi - lo) * (c - (i - 1) * Unit), Unit)

\* _sigmoidDerivative(x), lines 96-99
sigmoidDerivative(x) == Times(sigmoid(x), Minus(Unit, sigmoid(x)))

\* lines 119-123: the bias plus w[k] * current[k] for every k below
\* current.length; w[k] is undefined beyond the row
RECURSIVE WeightedSum(_, _, _, _)
WeightedSum(sum, w, current, k) ==
    IF k > Len(current) THEN sum
    ELSE WeightedSum(Plus(sum, Times(IF k <= Len(w) THEN w[k] ELSE NaN,
                                     current[k])),
                     w, current, k + 1)

\* line 139: the mask entry of a kept unit, 1/(1 - dropoutRate)
KeepFactor(nn) == Nearest(Unit * HyperUnit, HyperUnit - nn.dropoutRate)

\* lines 114-149: layers i.. of forward; draws[i][j] is the Math.random() of
\* line 139 for unit j of hidden layer i, in 1/HyperUnit, and draws is <<>>
\* when training is false
RECURSIVE ForwardLayers(_, _, _, _, _, _)
ForwardLayers(nn, weights, biases, draws, i, r) ==
    IF i > Len(weights) THEN r
    ELSE LET current == r.activations[Len(r.activations)]
             isOutputLayer == i = Len(weights)
             z == [j \in DOMAIN weights[i] |->
                      WeightedSum(biases[i][j], weights[i][j], current, 1)]
             training == draws # <<>>
             mask == IF training /\ ~isOutputLayer
                     THEN [j \in DOMAIN z |->
                              IF draws[i][j] > nn.dropoutRate
                              THEN KeepFactor(nn) ELSE 0]
                     ELSE <<>>
             a == [j \in DOMAIN z |->
                      IF isOutputLayer THEN sigmoid(z[j])
                      ELSE IF training THEN Times(leakyReLU(nn, z[j]), mask[j])
                      ELSE leakyReLU(nn, z[j])]
         IN  ForwardLayers(nn, weights, biases, draws, i + 1,
                [activations |-> Append(r.activations, a),
                 preActivations |-> Append(r.preActivations, z),
                 dropoutMasks |-> IF isOutputLayer THEN r.dropoutMasks
                                  ELSE Append(r.dropoutMasks, mask)])

\* forward(input, training), lines 107-152
forward(nn, weights, biases, input, draws) ==
    ForwardLayers(nn, weights, biases, draws, 1,
                  [activations |-> <<input>>, preActivations |-> <<>>,
                   dropoutMasks |-> <<>>])

\* a forward pass in training mode in which line 139 drops every hidden unit
forwardDropping(nn, weights, biases, input) ==
    forward(nn, weights, biases, input,
            [i \in DOMAIN nn.hiddenLayers |->
                [j \in 1..nn.hiddenLayers[i] |-> 0]])

\* line 378: this.forward(input, false)
forwardInference(nn, weights, biases, input) ==
    forward(nn, weights, biases, input, <<>>)

\* predict(input), lines 377-380
predict(nn, weights, biases, input) ==
    LET result == forwardInference(nn, weights, biases, input)
    IN  result.activations[Len(result.activations)][1]

\* lines 190-193: the error of unit j of the previous layer
RECURSIVE ErrorSum(_, _, _, _)
ErrorSum(delta, w, j, k) ==
    IF k > Len(delta) THEN 0
    ELSE Plus(Times(delta[k], w[k][j]), ErrorSum(delta, w, j, k + 1))

\* lines 170-206: layers i..1 of _backward
RECURSIVE BackwardLayers(_, _, _, _, _, _, _)
BackwardLayers(nn, weights, fr, i, delta, weightGrads, biasGrads) ==
    IF i < 1 THEN [weightGrads |-> weightGrads, biasGrads |-> biasGrads]
    ELSE LET prevActivation == fr.activations[i]
             wGrad == [j \in DOMAIN delta |->
                          [k \in DOMAIN prevActivation |->
                              Times(delta[j], prevActivation[k])]]
             newDelta ==
                 [j \in DOMAIN prevActivation |->
                     LET d == TimesLeakyReLUDerivative(nn,
                                  ErrorSum(delta, weights[i], j, 1),
                                  fr.preActivations[i - 1][j])
                     IN  IF fr.dropoutMasks[i - 1] # <<>>
                         THEN Times(d, fr.dropoutMasks[i - 1][j])
                         ELSE d]
         IN  BackwardLayers(nn, weights, fr, i - 1,
                            IF i > 1 THEN newDelta ELSE delta,
                            <<wGrad>> \o weightGrads, <<delta>> \o biasGrads)

\* _backward(input, target, forwardResult), lines 157-209
backward(nn, weights, target, fr) ==
    LET numLayers == Len(weights)
        outputActivation == fr.activations[Len(fr.activations)][1]
        delta == <<Times(Minus(outputActivation, target),
                         sigmoidDerivative(fr.preActivations[numLayers][1]))>>
    IN  BackwardLayers(nn, weights, fr, numLayers, delta, <<>>, <<>>)

\* lines 312-319: the gradients of one example added to the accumulated ones;
\* an entry beyond the example's row is left as it is
Accumulate(acc, g) ==
    [weightGrads |->
        [l \in DOMAIN acc.weightGrads |->
            [m \in DOMAIN acc.weightGrads[l] |->
                [n \in DOMAIN acc.weightGrads[l][m] |->
                    IF m <= Len(g.weightGrads[l]) /\ n <= Len(g.weightGrads[l][m])
                    THEN Plus(acc.weightGrads[l][m][n], g.weightGrads[l][m][n])
                    ELSE acc.weightGrads[l][m][n]]]],
     biasGrads |->
        [l \in DOMAIN acc.biasGrads |->
            [m \in DOMAIN acc.biasGrads[l] |->
                IF m <= Len(g.weightGrads[l])
                THEN Plus(acc.biasGrads[l][m], g.biasGrads[l][m])
                ELSE acc.biasGrads[l][m]]]]

\* lines 307-322: the examples j.. of a batch; r holds the accumulated
\* gradients and the epoch's loss
RECURSIVE BatchGradients(_, _, _, _, _, _, _, _)
BatchGradients(nn, weights, biases, batchInputs, batchTargets, draws, j, r) ==
    IF j > Len(batchInputs) THEN r
    ELSE LET forwardResult == forward(nn, weights, biases, batchInputs[j],
                                      draws[j])
             g == backward(nn, weights, batchTargets[j], forwardResult)
             out == forwardResult.activations[Len(forwardResult.activations)][1]
             err == Minus(out, batchTargets[j])
         IN  BatchGradients(nn, weights, biases, batchInputs, batchTargets,
                            draws, j + 1,
                            [acc |-> Accumulate(r.acc, g),
                             epochLoss |-> Plus(r.epochLoss, Times(err, err))])

\* _updateWeights(weightGrads, biasGrads, batchSize), lines 214-239: the new
\* velocities, weights and biases
updateWeights(nn, weights, biases, acc, batchSize) ==
    LET velocities ==
            [i \in DOMAIN weights |->
                [weight |->
                    [j \in DOMAIN weights[i] |->
                        [k \in DOMAIN weights[i][j] |->
                            LET grad == Plus(Over(acc.weightGrads[i][j][k], batchSize),
                                             Scale(nn.l2Lambda, weights[i][j][k]))
                            IN  Minus(Scale(nn.momentum,
                                            nn.velocities[i].weight[j][k]),
                                      Scale(nn.learningRate, grad))]],
                 bias |->
                    [j \in DOMAIN weights[i] |->
                        LET bGrad == Over(acc.biasGrads[i][j], batchSize)
                        IN  Minus(Scale(nn.momentum, nn.velocities[i].bias[j]),
                                  Scale(nn.learningRate, bGrad))]]]
    IN  [velocities |-> velocities,
         weights |-> [i \in DOMAIN weights |->
                         [j \in DOMAIN weights[i] |->
                             [k \in DOMAIN weights[i][j] |->
                                 Plus(weights[i][j][k],
                                      velocities[i].weight[j][k])]]],
         biases |-> [i \in DOMAIN biases |->
                        [j \in DOMAIN biases[i] |->
                            Plus(biases[i][j], velocities[i].bias[j])]]]

\* x || d for a number x (lines 410-417): 0 and NaN give d
OrDefault(x, d) == IF x = 0 \/ x = NaN THEN d ELSE x

\* toJSON(), lines 385-401: the arrays are the network's own
toJSON(nn) ==
    [inputSize |-> nn.inputSize, hiddenLayers |-> nn.hiddenLayers,
     outputSize |-> nn.outputSize,
     weights |-> nn.weights, biases |-> nn.biases,
     learningRate |-> nn.learningRate, momentum |-> nn.momentum,
     l2Lambda |-> nn.l2Lambda, dropoutRate |-> nn.dropoutRate,
     epochs |-> nn.epochs,
     trainingLoss |-> nn.trainingLoss, validationLoss |-> nn.validationLoss,
     bestLoss |-> nn.bestLoss]

\* fromJSON without line 408: the weights stay those the constructor drew
fromJSONOwnWeights(json, fresh, weights, biases) ==
    [fresh EXCEPT !.biases = json.biases,
                  !.learningRate = OrDefault(json.learningRate, @),
                  !.momentum = OrDefault(json.momentum, @),
                  !.l2Lambda = OrDefault(json.l2Lambda, @),
                  !.dropoutRate = OrDefault(json.dropoutRate, @),
                  !.epochs = OrDefault(json.epochs, 0),
                  !.trainingLoss = json.trainingLoss,
                  !.validationLoss = json.validationLoss,
                  !.bestLoss = OrDefault(json.bestLoss, Infinity),
                  !.velocities = ZeroVelocities(weights, biases)]

\* lines 420-426 keeping what the snapshot's network moved by: a velocity
\* entry per weight and per bias, holding the entry itself
CopiedVelocities(weights, biases) ==
    [i \in DOMAIN weights |-> [weight |-> weights[i], bias |-> biases[i]]]

\* lines 420-426: the velocities of the restored network
ReinitializeVelocities(weights, biases) == ZeroVelocities(weights, biases)

\* fromJSON(json), lines 406-429: fresh is the network line 407 constructs,
\* weights and biases the arrays json.weights and json.biases hold
fromJSON(json, fresh, weights, biases) ==
    [fresh EXCEPT !.weights = json.weights,
                  !.biases = json.biases,
                  !.learningRate = OrDefault(json.learningRate, @),
                  !.momentum = OrDefault(json.momentum, @),
                  !.l2Lambda = OrDefault(json.l2Lambda, @),
                  !.dropoutRate = OrDefault(json.dropoutRate, @),
                  !.epochs = OrDefault(json.epochs, 0),
                  !.trainingLoss = json.trainingLoss,
                  !.validationLoss = json.validationLoss,
                  !.bestLoss = OrDefault(json.bestLoss, Infinity),
                  !.velocities = ReinitializeVelocities(weights, biases)]

\* the weights and biases Math.random() may give a new network
\* (lines 55-63), by its layers
InitialWeights ==
    {[layers |-> <<1, 1, 1>>,
      weights |-> << << <<500>> >>, << <<-800>> >> >>,
      biases |-> << <<10>>, <<-5>> >>],
     [layers |-> <<1, 1, 1>>,
      weights |-> << << <<-300>> >>, << <<900>> >> >>,
      biases |-> << <<-10>>, <<5>> >>],
     [layers |-> <<2, 1, 1>>,
      weights |-> << << <<-600, 300>> >>, << <<700>> >> >>,
      biases |-> << <<-10>>, <<5>> >>]}

\* new NeuralNetwork(inputSize, hiddenLayers, outputSize) with its arrays in
\* cell a: the network and the cell, for every draw of the weights
Constructions(inputSize, hiddenLayers, outputSize, a) ==
    {[nn |-> NewNetwork(inputSize, hiddenLayers, outputSize, a,
                        w.weights, w.biases),
      cell |-> NewCell(w.weights, w.biases)] :
        w \in {x \in InitialWeights :
                  x.layers = <<inputSize>> \o hiddenLayers \o <<outputSize>>}}

\* a network's state by value
View(nn) ==
    [weights |-> heap[nn.weights].weights, biases |-> heap[nn.biases].biases,
     velocities |-> nn.velocities,
     learningRate |-> nn.learningRate, momentum |-> nn.momentum,
     l2Lambda |-> nn.l2Lambda, dropoutRate |-> nn.dropoutRate,
     leakyAlpha |-> nn.leakyAlpha, epochs |-> nn.epochs,
     trainingLoss |-> heap[nn.trainingLoss].trainingLoss,
     validationLoss |-> heap[nn.validationLoss].validationLoss,
     bestLoss |-> nn.bestLoss, patienceCounter |-> nn.patienceCounter]

\* a cell nothing refers to
Unreferenced == <<>>

\* the cell of network a after fromJSON: its arrays, when the network kept any
CellOf(nn, a, cell) ==
    IF a \in {nn.weights, nn.biases, nn.trainingLoss, nn.validationLoss}
    THEN cell ELSE Unreferenced

(***************************************************************************)
(* The calls made on the networks.                                         *)
(***************************************************************************)
MaxOps == 4         \* the most calls that change a network or make one

\* input vectors of 1 and of 2 numbers
InputVectors == {<<1000>>, <<1000, 500>>}

\* training sets of vectors of 1 and of 2 numbers
DataOfSize ==
    <<[inputs |-> << <<1000>>, <<0>> >>, targets |-> <<1000, 0>>],
      [inputs |-> << <<1000, 500>>, <<0, 1000>> >>, targets |-> <<0, 1000>>]>>

\* the options of a train call; validationSplit in tenths.  batchSize 32 and
\* validationSplit 0.2 are the defaults (lines 274-275)
TrainCalls ==
    {[data |-> DataOfSize[1], epochs |-> 0, batchSize |-> 32,
      validationSplit |-> 2],
     [data |-> DataOfSize[1], epochs |-> 1, batchSize |-> 1,
      validationSplit |-> 0],
     [data |-> DataOfSize[2], epochs |-> 2, batchSize |-> 32,
      validationSplit |-> 2]}

\* hyperparameters given to a network, in 1/HyperUnit
HyperChoices ==
    {[learningRate |-> 50000, momentum |-> 50000, l2Lambda |-> 100,
      dropoutRate |-> 0],
     [learningRate |-> 0, momentum |-> 0, l2Lambda |-> 0,
      dropoutRate |-> 50000]}

\* the values Math.random() takes at line 139, in 1/HyperUnit
RandomDraws == {10000, 60000}

\* the draws of line 139 of one forward call: one for every hidden unit
DrawChoices(nn) ==
    {d \in [DOMAIN nn.hiddenLayers ->
               UNION {[1..nn.hiddenLayers[i] -> RandomDraws] :
                         i \in DOMAIN nn.hiddenLayers}] :
        \A i \in DOMAIN d : DOMAIN d[i] = 1..nn.hiddenLayers[i]}

\* lines 288-292 with an index drawn for every place, repeats allowed
ShufflesWithRepeats(n) == [1..n -> 1..n]

\* lines 288-292: the orders the shuffle can give the indices 1..n
Shuffles(n) ==
    {s \in [1..n -> 1..n] : \A a, b \in 1..n : s[a] = s[b] => a = b}

\* nn.learningRate = ..., nn.momentum = ..., nn.l2Lambda = ...,
\* nn.dropoutRate = ... (quantum-optimizer.js:261-264)
AssignHyperparameters(nn, params) ==
    [nn EXCEPT !.learningRate = params.learningRate,
               !.momentum = params.momentum,
               !.l2Lambda = params.l2Lambda,
               !.dropoutRate = params.dropoutRate]

Idle == train = <<>> /\ cand = <<>>

Assign(k) ==
    /\ Idle /\ k \in DOMAIN nets /\ ops < MaxOps
    /\ \E params \in HyperChoices :
          nets' = [nets EXCEPT ![k] = AssignHyperparameters(@, params)]
    /\ ops' = ops + 1
    /\ outcome' = <<>>
    /\ UNCHANGED <<heap, snaps, train, cand, tuneVars, optVars>>

\* n.toJSON()
ToJSON(k) ==
    /\ Idle /\ k \in DOMAIN nets /\ ops < MaxOps
    /\ snaps' = Append(snaps, [json |-> toJSON(nets[k]), of |-> k,
                               was |-> View(nets[k])])
    /\ ops' = ops + 1
    /\ outcome' = <<>>
    /\ UNCHANGED <<nets, heap, train, cand, tuneVars, optVars>>

\* NeuralNetwork.fromJSON(json)
FromJSON(s) ==
    /\ Idle /\ s \in DOMAIN snaps /\ ops < MaxOps
    /\ LET json == snaps[s].json
           a == Len(nets) + 1
       IN  \E c \in Constructions(json.inputSize, json.hiddenLayers,
                                  json.outputSize, a) :
             LET nn == fromJSON(json, c.nn, heap[json.weights].weights,
                                heap[json.biases].biases)
             IN  /\ nets' = Append(nets, nn)
                 /\ heap' = Append(heap, CellOf(nn, a, c.cell))
                 /\ outcome' = <<[op |-> "fromJSON", net |-> a,
                                  of |-> snaps[s].of, was |-> snaps[s].was]>>
    /\ ops' = ops + 1
    /\ UNCHANGED <<snaps, train, cand, tuneVars, optVars>>

\* n.predict(input)
Predict(k) ==
    /\ Idle /\ k \in DOMAIN nets
    /\ \E input \in InputVectors :
          outcome' = <<[op |-> "predict", net |-> k, inputs |-> <<input>>,
                        threw |-> FALSE, before |-> View(nets[k]),
                        dropoutMasks |->
                            forwardInference(nets[k],
                                             heap[nets[k].weights].weights,
                                             heap[nets[k].biases].biases,
                                             input).dropoutMasks,
                        value |-> predict(nets[k], heap[nets[k].weights].weights,
                                          heap[nets[k].biases].biases, input)]>>
    /\ UNCHANGED <<nets, heap, snaps, train, cand, ops, tuneVars, optVars>>

\* lines 272-284 of train(inputs, targets, options).  processed lists the
\* examples given to forward and _backward in the epoch so far (lines
\* 307-308), by their index in inputs
NewTrain(k, call) ==
    LET inputs == call.data.inputs
        targets == call.data.targets
        splitIdx == (Len(inputs) * (10 - call.validationSplit)) \div 10
    IN  [net |-> k, inputs |-> inputs, epochs |-> call.epochs,
         batchSize |-> call.batchSize,
         validationSplit |-> call.validationSplit, processed |-> <<>>,
         trainInputs |-> SubSeq(inputs, 1, splitIdx),
         trainTargets |-> SubSeq(targets, 1, splitIdx),
         valInputs |-> SubSeq(inputs, splitIdx + 1, Len(inputs)),
         valTargets |-> SubSeq(targets, splitIdx + 1, Len(targets)),
         epoch |-> 0, pc |-> "epoch", indices |-> <<>>, i |-> 0,
         epochLoss |-> 0, numBatches |-> 0, improved |-> FALSE,
         before |-> View(nets[k])]

\* n.train(inputs, targets, options)
TrainCall(k) ==
    /\ Idle /\ k \in DOMAIN nets /\ ops < MaxOps
    /\ \E call \in TrainCalls : train' = <<NewTrain(k, call)>>
    /\ ops' = ops + 1
    /\ outcome' = <<>>
    /\ UNCHANGED <<nets, heap, snaps, cand, tuneVars, optVars>>

\* a training set of one example, of 1 and of 2 numbers: with the default
\* validationSplit line 276 leaves no training example
SingleExampleOfSize ==
    <<[inputs |-> << <<1000>> >>, targets |-> <<1000>>],
      [inputs |-> << <<1000, 500>> >>, targets |-> <<0>>]>>

MaxLongEpochs == 11     \* the most epochs a long train call asks for

\* train calls with the default batchSize and validationSplit
LongCalls(nn) ==
    {[data |-> SingleExampleOfSize[nn.inputSize], epochs |-> e,
      batchSize |-> 32, validationSplit |-> 2] : e \in {1, MaxLongEpochs}}
    \cup {[data |-> DataOfSize[nn.inputSize], epochs |-> 1, batchSize |-> 32,
           validationSplit |-> 2]}

\* n.train(inputs, targets, {epochs})
TrainLong(k) ==
    /\ Idle /\ k \in DOMAIN nets /\ ops < MaxOps
    /\ \E call \in LongCalls(nets[k]) : train' = <<NewTrain(k, call)>>
    /\ ops' = ops + 1
    /\ outcome' = <<>>
    /\ UNCHANGED <<nets, heap, snaps, cand, tuneVars, optVars>>

\* training sets of four examples, of vectors of 1 and of 2 numbers
FourExamplesOfSize ==
    <<[inputs |-> << <<1000>>, <<0>>, <<500>>, <<-500>> >>,
       targets |-> <<1000, 0, 1000, 0>>],
      [inputs |-> << <<1000, 500>>, <<0, 1000>>, <<500, 500>>, <<0, 0>> >>,
       targets |-> <<0, 1000, 1000, 0>>]>>

MaxBatchEpochs == 2     \* the most epochs a train call in batches asks for

\* train calls with batchSize 2 and the default validationSplit: three
\* training examples in batches of 2 and 1, one validation example
BatchCalls(nn) ==
    {[data |-> FourExamplesOfSize[nn.inputSize], epochs |-> e,
      batchSize |-> 2, validationSplit |-> 2] : e \in 1..MaxBatchEpochs}

\* n.train(inputs, targets, {epochs, batchSize: 2}), the first train call
\* on the network
TrainInBatches(k) ==
    /\ Idle /\ k \in DOMAIN nets /\ ops < MaxOps
    /\ nets[k].epochs = 0
    /\ \E call \in BatchCalls(nets[k]) : train' = <<NewTrain(k, call)>>
    /\ ops' = ops + 1
    /\ outcome' = <<>>
    /\ UNCHANGED <<nets, heap, snaps, cand, tuneVars, optVars>>

\* line 286 taken one epoch further
EpochLoopRunsOnceMore(epoch, epochs) == epoch <= epochs

\* line 286: epoch < epochs
EpochLoopRuns(epoch, epochs) == epoch < epochs

\* lines 286-295: an epoch starts with the shuffle of the indices
TrainEpochStart ==
    /\ train # <<>>
    /\ LET t == train[1]
       IN  /\ t.pc = "epoch"
           /\ EpochLoopRuns(t.epoch, t.epochs)
           /\ \E indices \in Shuffles(Len(t.trainInputs)) :
                 train' = <<[t EXCEPT !.pc = "batch", !.indices = indices,
                                      !.i = 0, !.epochLoss = 0,
                                      !.numBatches = 0, !.processed = <<>>]>>
    /\ UNCHANGED <<nets, heap, snaps, cand, outcome, ops, tuneVars, optVars>>

\* lines 298-327: one mini-batch
TrainBatch ==
    /\ train # <<>>
    /\ LET t == train[1]
           nn == nets[t.net]
           weights == heap[nn.weights].weights
           biases == heap[nn.biases].biases
           last == Min(t.i + t.batchSize, Len(t.trainInputs))
           batchIndices == SubSeq(t.indices, t.i + 1, last)
           batchInputs == [j \in DOMAIN batchIndices |->
                              t.trainInputs[batchIndices[j]]]
           batchTargets == [j \in DOMAIN batchIndices |->
                               t.trainTargets[batchIndices[j]]]
           zero == [weightGrads |->
                       [l \in DOMAIN weights |->
                           [m \in DOMAIN weights[l] |->
                               [n \in DOMAIN weights[l][m] |-> 0]]],
                    biasGrads |->
                       [l \in DOMAIN biases |->
                           [m \in DOMAIN biases[l] |-> 0]]]
       IN  /\ t.pc = "batch"
           /\ t.i < Len(t.trainInputs)
           /\ \E draws \in [DOMAIN batchIndices -> DrawChoices(nn)] :
              \E r \in {BatchGradients(nn, weights, biases, batchInputs,
                                       batchTargets, draws, 1,
                                       [acc |-> zero, epochLoss |-> t.epochLoss])} :
              \E u \in {updateWeights(nn, weights, biases, r.acc,
                                      Len(batchInputs))} :
                 /\ heap' = [heap EXCEPT ![nn.weights].weights = u.weights,
                                         ![nn.biases].biases = u.biases]
                 /\ nets' = [nets EXCEPT ![t.net].velocities = u.velocities]
                 /\ train' = <<[t EXCEPT !.i = t.i + t.batchSize,
                                         !.epochLoss = r.epochLoss,
                                         !.numBatches = t.numBatches + 1,
                                         !.processed = @ \o batchIndices]>>
    /\ UNCHANGED <<snaps, cand, outcome, ops, tuneVars, optVars>>

\* lines 336-339: the squared errors of the validation examples i..
RECURSIVE ValidationLoss(_, _, _, _, _, _)
ValidationLoss(nn, weights, biases, valInputs, valTargets, i) ==
    IF i > Len(valInputs) THEN 0
    ELSE LET prediction == predict(nn, weights, biases, valInputs[i])
             err == Minus(prediction, valTargets[i])
         IN  Plus(Times(err, err),
                  ValidationLoss(nn, weights, biases, valInputs, valTargets,
                                 i + 1))

\* lines 329-358: the losses of the epoch, early stopping, the epoch counter
TrainEpochEnd ==
    /\ train # <<>>
    /\ LET t == train[1]
           nn == nets[t.net]
           epochLoss == Over(t.epochLoss, Len(t.trainInputs))
           valLoss == Over(ValidationLoss(nn, heap[nn.weights].weights,
                                          heap[nn.biases].biases,
                                          t.valInputs, t.valTargets, 1),
                           Len(t.valInputs))
           validated == Len(t.valInputs) > 0
           improved == validated /\ Less(valLoss, nn.bestLoss)
           patienceCounter == IF ~validated THEN nn.patienceCounter
                              ELSE IF improved THEN 0
                              ELSE nn.patienceCounter + 1
           stop == validated /\ ~improved /\ patienceCounter >= nn.patience
           h1 == [heap EXCEPT ![nn.trainingLoss].trainingLoss =
                                  Append(@, epochLoss)]
       IN  /\ t.pc = "batch"
           /\ t.i >= Len(t.trainInputs)
           /\ heap' = IF validated
                      THEN [h1 EXCEPT ![nn.validationLoss].validationLoss =
                                          Append(@, valLoss)]
                      ELSE h1
           /\ nets' = [nets EXCEPT ![t.net] =
                          [nn EXCEPT !.bestLoss = IF improved THEN valLoss ELSE @,
                                     !.patienceCounter = patienceCounter,
                                     !.epochs = IF stop THEN @ ELSE @ + 1]]
           /\ train' = <<[t EXCEPT !.pc = IF stop THEN "return" ELSE "epoch",
                                   !.epoch = t.epoch + 1,
                                   !.improved = improved]>>
    /\ UNCHANGED <<snaps, cand, outcome, ops, tuneVars, optVars>>

\* x || null (line 367)
OrNull(x) == IF x = <<>> \/ x[1] = 0 \/ x[1] = NaN THEN <<>> ELSE x

\* the last entry of an array, <<>> when it has none
LastOf(s) == IF Len(s) = 0 THEN <<>> ELSE <<s[Len(s)]>>

\* lines 365-369: train returns
TrainReturn ==
    /\ train # <<>>
    /\ LET t == train[1]
           nn == nets[t.net]
       IN  /\ \/ t.pc = "return"
              \/ t.pc = "epoch" /\ ~EpochLoopRuns(t.epoch, t.epochs)
           /\ outcome' =
                 <<[op |-> "train", net |-> t.net, inputs |-> t.inputs,
                    epochs |-> t.epochs, threw |-> FALSE,
                    early |-> t.pc = "return",
                    before |-> t.before, after |-> View(nn),
                    value |-> [finalLoss |->
                                   LastOf(heap[nn.trainingLoss].trainingLoss),
                               finalValLoss |->
                                   OrNull(LastOf(heap[nn.validationLoss]
                                                     .validationLoss)),
                               epochs |-> nn.epochs]]>>
           /\ train' = <<>>
           /\ cand' = IF cand = <<>> THEN cand
                      ELSE <<[cand[1] EXCEPT !.pc = "evaluate"]>>
    /\ UNCHANGED <<nets, heap, snaps, ops, tuneVars, optVars>>

(***************************************************************************)
(* optimizeNeuralNetwork (quantum-optimizer.js:248-297): the objective     *)
(* function, called once for every candidate optimize() evaluates.         *)
(***************************************************************************)
MaxCandidates == 2      \* the most candidates the objective is called for
ObjectiveEpochs == 2    \* the epochs of a candidate's training (10 at line 274)

\* decoded parameters within paramRanges (lines 250-255)
CandidateParams ==
    {[learningRate |-> 1000, momentum |-> 50000, l2Lambda |-> 100,
      dropoutRate |-> 0],
     [learningRate |-> 1000, momentum |-> 99000, l2Lambda |-> 1,
      dropoutRate |-> 50000]}

\* the arguments of optimizeNeuralNetwork(neuralNetwork, trainData,
\* trainTargets, validData, validTargets) and the objective's position
NewObjective(k, data) ==
    [caller |-> k, trainData |-> data, validData |-> data, pc |-> "ready",
     nn |-> 0, evaluated |-> 0, fitness |-> <<>>,
     given |-> [weights |-> heap[nets[k].weights].weights,
                biases |-> heap[nets[k].biases].biases],
     starts |-> <<>>]

\* lines 259-278: the candidate's network and the start of its training
ObjectiveCopy ==
    /\ cand # <<>> /\ train = <<>>
    /\ LET o == cand[1]
           neuralNetwork == nets[o.caller]
           json == toJSON(neuralNetwork)
           a == Len(nets) + 1
           subsetSize == Min(100, Len(o.trainData.inputs))
           call == [data |-> [inputs |-> SubSeq(o.trainData.inputs, 1, subsetSize),
                              targets |-> SubSeq(o.trainData.targets, 1,
                                                 subsetSize)],
                    epochs |-> ObjectiveEpochs, batchSize |-> 16,
                    validationSplit |-> 2]
       IN  /\ o.pc = "ready"
           /\ o.evaluated < MaxCandidates
           /\ \E params \in CandidateParams :
              \E c \in Constructions(json.inputSize, json.hiddenLayers,
                                     json.outputSize, a) :
                 LET nn == AssignHyperparameters(
                               fromJSON(json, c.nn, heap[json.weights].weights,
                                        heap[json.biases].biases),
                               params)
                     start == [weights |-> heap[nn.weights].weights,
                               biases |-> heap[nn.biases].biases]
                 IN  /\ nets' = Append(nets, nn)
                     /\ heap' = Append(heap, CellOf(nn, a, c.cell))
                     /\ cand' = <<[o EXCEPT !.pc = "training", !.nn = a,
                                            !.starts = Append(@, start)]>>
                     /\ train' = <<[NewTrain(o.caller, call) EXCEPT
                                       !.net = a, !.before = start]>>
    /\ outcome' = <<>>
    /\ UNCHANGED <<snaps, ops, tuneVars, optVars>>

\* lines 281-287: the validation examples i.. the candidate classifies right
RECURSIVE Correct(_, _, _, _, _, _)
Correct(nn, weights, biases, validData, validTargets, i) ==
    IF i > Len(validData) THEN 0
    ELSE LET prediction == predict(nn, weights, biases, validData[i])
             predictedClass == IF Less(Unit \div 2, prediction) THEN Unit ELSE 0
         IN  (IF predictedClass = validTargets[i] THEN 1 ELSE 0)
             + Correct(nn, weights, biases, validData, validTargets, i + 1)

\* lines 280-290: the candidate's fitness, correct over validData.length
ObjectiveEvaluate ==
    /\ cand # <<>> /\ train = <<>>
    /\ LET o == cand[1]
           nn == nets[o.nn]
           correct == Correct(nn, heap[nn.weights].weights,
                              heap[nn.biases].biases, o.validData.inputs,
                              o.validData.targets, 1)
       IN  /\ o.pc = "evaluate"
           /\ cand' = <<[o EXCEPT !.pc = "ready", !.evaluated = @ + 1,
                                  !.fitness = Append(@,
                                      <<correct, Len(o.validData.inputs)>>)]>>
    /\ UNCHANGED <<nets, heap, snaps, train, outcome, ops, tuneVars, optVars>>

\* a network as its constructor leaves it, and the calls made on it and on
\* the networks restored from its snapshots
NNInit ==
    /\ \E w \in InitialWeights :
       \E c \in Constructions(w.layers[1], <<w.layers[2]>>, w.layers[3], 1) :
          /\ c.cell.weights = w.weights
          /\ nets = <<c.nn>>
          /\ heap = <<c.cell>>
    /\ snaps = <<>> /\ train = <<>> /\ cand = <<>> /\ outcome = <<>>
    /\ ops = 0
    /\ NoTune
    /\ NoOptimize

NetIds == 1..(MaxOps + 1)
SnapIds == 1..MaxOps

NNNext ==
    \/ \E k \in NetIds : Assign(k)
    \/ \E k \in NetIds : ToJSON(k)
    \/ \E s \in SnapIds : FromJSON(s)
    \/ \E k \in NetIds : Predict(k)
    \/ \E k \in NetIds : TrainCall(k)
    \/ TrainEpochStart
    \/ TrainBatch
    \/ TrainEpochEnd
    \/ TrainReturn

SpecNN == NNInit /\ [][NNNext]_vars

\* one network, its hyperparameters assigned, trained for many epochs
LongNext ==
    \/ Assign(1)
    \/ TrainLong(1)
    \/ Predict(1)
    \/ TrainEpochStart
    \/ TrainBatch
    \/ TrainEpochEnd
    \/ TrainReturn

SpecLong == NNInit /\ [][LongNext]_vars

\* one network, its hyperparameters assigned, trained in mini-batches
BatchNext ==
    \/ Assign(1)
    \/ TrainInBatches(1)
    \/ TrainEpochStart
    \/ TrainBatch
    \/ TrainEpochEnd
    \/ TrainReturn

SpecBatch == NNInit /\ [][BatchNext]_vars

\* optimizeNeuralNetwork called with a network as its constructor left it
ObjInit ==
    /\ \E w \in InitialWeights :
       \E c \in Constructions(w.layers[1], <<w.layers[2]>>, w.layers[3], 1) :
          /\ c.cell.weights = w.weights
          /\ nets = <<c.nn>>
          /\ heap = <<c.cell>>
          /\ cand = <<NewObjective(1, DataOfSize[w.layers[1]])>>
    /\ snaps = <<>> /\ train = <<>> /\ outcome = <<>>
    /\ ops = 0
    /\ NoTune
    /\ NoOptimize

ObjNext ==
    \/ ObjectiveCopy
    \/ TrainEpochStart
    \/ TrainBatch
    \/ TrainEpochEnd
    \/ TrainReturn
    \/ ObjectiveEvaluate

SpecObj == ObjInit /\ [][ObjNext]_vars

(***************************************************************************)
(* The QuantumOptimizer of src/unnamed/part_002, which keeps the amplitude *)
(* pair of a dimension and turns it with a rotation matrix.  An amplitude  *)
(* a stands for a/Unit, an angle k for k*pi/12; the individual has one     *)
(* dimension.                                                              *)
(***************************************************************************)
\* Math.cos(k*pi/12) in thousandths
cosine(k) ==
    <<1000, 966, 866, 707, 500, 259, 0, -259, -500, -707, -866, -966,
      -1000, -966, -866, -707, -500, -259, 0, 259, 500, 707, 866, 966>>
        [(k % 24) + 1]

\* Math.sin(k*pi/12): sin(x) = cos(x - pi/2)
sine(k) == cosine(k + 18)

\* initialize, lines 12-38: the individual of position and angle theta
initialize2(position, theta) ==
    [position |-> position,
     qstate |-> [alpha |-> cosine(theta), beta |-> sine(theta)],
     fitness |-> 0]

\* the rotation of lines 49-55 with beta computed from the new alpha
quantumRotate2InPlace(individual, globalBest, iteration, maxIterations) ==
    LET theta == (12 \div maxIterations) * (1 + iteration)
        newAlpha == Minus(Times(individual.qstate.alpha, cosine(theta)),
                          Times(individual.qstate.beta, sine(theta)))
        newBeta == Plus(Times(newAlpha, sine(theta)),
                        Times(individual.qstate.beta, cosine(theta)))
    IN  [individual EXCEPT !.qstate = [alpha |-> newAlpha, beta |-> newBeta]]

\* quantumRotate(individual, globalBest, iteration), lines 42-61; theta is
\* (Math.PI / this.maxIterations) * (1 + iteration)
quantumRotate2(individual, globalBest, iteration, maxIterations) ==
    LET theta == (12 \div maxIterations) * (1 + iteration)
        delta == globalBest - individual.position
        newAlpha == Minus(Times(individual.qstate.alpha, cosine(theta)),
                          Times(individual.qstate.beta, sine(theta)))
        newBeta == Plus(Times(individual.qstate.alpha, sine(theta)),
                        Times(individual.qstate.beta, cosine(theta)))
        probability == Times(newAlpha, newAlpha)
    IN  [individual EXCEPT
            !.qstate = [alpha |-> newAlpha, beta |-> newBeta],
            !.position = @ + Nearest(Times(delta, probability), 10)]

\* an individual as initialize leaves it, the position of the global best
\* and maxIterations; Math.random() * Math.PI is one of 12 angles
QInit ==
    /\ \E theta \in 0..11, maxIterations \in {2, 3, 4, 6},
          position \in {0, 500}, globalBest \in {200, 1000} :
          /\ qo = [populationSize |-> 1, maxIterations |-> maxIterations,
                   bestSolution |-> globalBest]
          /\ ocall = [pc |-> "rotate", iteration |-> 0,
                      individual |-> initialize2(position, theta)]
    /\ NoTune
    /\ NoNetwork

\* line 89 in the loop of line 76: the rotation of the iteration
QRotate ==
    /\ ocall # <<>>
    /\ ocall.pc = "rotate"
    /\ ocall.iteration < qo.maxIterations
    /\ ocall' = [ocall EXCEPT
          !.individual = quantumRotate2(@, qo.bestSolution, ocall.iteration,
                                        qo.maxIterations),
          !.iteration = @ + 1]
    /\ UNCHANGED <<qo, tuneVars, nnVars>>

\* the optimizers: a tuneHyperparametersAsync call or an optimize() call
Init == TuneInit \/ OptInit
Next == TuneNext \/ OptNext
Spec == Init /\ [][Next]_vars

\* the event loop runs every continuation that is ready, and optimize() runs
\* to its end: a step that can be taken is taken
SpecFair == Spec /\ WF_vars(Next)

\* the three optimizers of the repository
NormInit == TuneInit \/ OptInit \/ QInit
NormNext == TuneNext \/ OptNext \/ QRotate
SpecNorm == NormInit /\ [][NormNext]_vars


(***************************************************************************)
(* Claims about the optimizers, checked under Spec.                        *)
(***************************************************************************)

\* C1: within one optimizer run the best-known fitness never decreases: the
\* bestFitness of every history record of a tuneHyperparametersAsync run, and
\* every fitnessHistory entry an optimize() call has pushed, is >= the one
\* recorded before it in the same run.
C1_BestFitnessNonDecreasing ==
    /\ \A c \in DOMAIN calls :
          LET h == insts[calls[c].inst].history
          IN  \A k \in 2..Len(h) : h[k].bestFitness >= h[k - 1].bestFitness
    /\ ocall # <<>> =>
          \A k \in (ocall.first + 1)..Len(qo.fitnessHistory) :
              qo.fitnessHistory[k] >= qo.fitnessHistory[k - 1]

\* a run whose second iteration found a strictly better candidate than its
\* first iteration did, after an evaluation that scored below the best
C1_Witness ==
    \E c \in DOMAIN calls :
        LET o == insts[calls[c].inst]
        IN  /\ Len(o.history) >= 2
            /\ o.history[2].bestFitness > o.history[1].bestFitness
            /\ \E k \in DOMAIN o.population :
                  o.population[k].fitness < o.bestFitness

\* whether the decoded value v (in units of 1/(2*scale)) lies within the
\* bounds min..max (in halves)
WithinBounds(v, min, max, scale) == min * scale <= v /\ v <= max * scale

\* C3: every hyperparameter value decoded from an individual's state and
\* handed to the model or objective lies within the declared [min, max] of
\* that hyperparameter: in tuneHyperparametersAsync (mapPositionToParams)
\* and in optimize (_decodeParameter), for every encoding.
C3_DecodedWithinBounds ==
    /\ \A c \in DOMAIN calls :
          LET f == calls[c]
          IN  f.model # <<>> =>
                 \A d \in DOMAIN f.model[1].params :
                    WithinBounds(f.model[1].params[d], f.cfg.bounds[d][1],
                                 f.cfg.bounds[d][2], PosScale)
    /\ ocall # <<>> =>
          \A k \in DOMAIN ocall.population :
             \A i \in DOMAIN ocall.ranges :
                WithinBounds(ocall.population[k].params[i], ocall.ranges[i].min,
                             ocall.ranges[i].max, ProbScale)

\* C5: a candidate whose evaluation throws (model construction, training or
\* prediction) does not abort the run, and its fitness is recorded as the
\* minimum possible fitness, 0.
C5_FailureRecordedAsMinimum ==
    \A c \in DOMAIN calls :
        /\ calls[c].pc # "failed"
        /\ \A k \in DOMAIN calls[c].last :
              calls[c].last[k].threw =>
                 calls[c].last[k].scored /\ calls[c].last[k].fitness = 0


\* C4: two tuneHyperparametersAsync runs with the same seed, the same
\* configuration and an objective that is a function of the hyperparameters
\* give every individual the same position and theta after every iteration,
\* and record the same history.  (Checked under SpecDet.)
C4_SameTrajectory ==
    Len(calls) = 2 =>
        /\ \A k \in 1..Min(Len(calls[1].traj), Len(calls[2].traj)) :
              calls[1].traj[k] = calls[2].traj[k]
        /\ \A k \in 1..Min(Len(insts[1].history), Len(insts[2].history)) :
              insts[1].history[k] = insts[2].history[k]
        /\ (calls[1].pc = "done" /\ calls[2].pc = "done") =>
              calls[1].result = calls[2].result

\* both runs returned after two or more iterations that moved the population
C4_Witness ==
    /\ Len(calls) = 2
    /\ calls[1].pc = "done" /\ calls[2].pc = "done"
    /\ Len(calls[2].traj) >= 2
    /\ calls[2].traj[1] # calls[2].traj[2]
    /\ insts[1].seed # insts[2].seed

(***************************************************************************)
(* Claims about optimizeNeuralNetwork, checked under SpecObj.              *)
(***************************************************************************)

\* C2: while optimizeNeuralNetwork evaluates its candidates, the weights and
\* biases of the network the caller passed in stay as they were given, and
\* every candidate starts from those weights and biases.
C2_CandidatesIsolated ==
    cand # <<>> =>
        LET o == cand[1]
            neuralNetwork == nets[o.caller]
        IN  /\ heap[neuralNetwork.weights].weights = o.given.weights
            /\ heap[neuralNetwork.biases].biases = o.given.biases
            /\ \A k \in DOMAIN o.starts : o.starts[k] = o.given

(***************************************************************************)
(* Claims about the NeuralNetwork, checked under SpecNN.                   *)
(***************************************************************************)

\* the network a fromJSON call has just returned and the network whose
\* snapshot it was given
Restored == nets[outcome[1].net]
Source == nets[outcome[1].of]
JustRestored == outcome # <<>> /\ outcome[1].op = "fromJSON"
\* the snapshot's network is as it was when toJSON was called
SnapshotFresh == View(Source) = outcome[1].was

\* C6: predict on the network fromJSON returns gives, for every input
\* vector, the value predict gives on the network the snapshot was taken of.
C6_RoundTripSamePredictions ==
    JustRestored =>
        \A input \in InputVectors :
            predict(Restored, heap[Restored.weights].weights,
                    heap[Restored.biases].biases, input)
            = predict(Source, heap[Source.weights].weights,
                      heap[Source.biases].biases, input)

\* a network restored from the snapshot of a network that was given
\* hyperparameters and trained, whose training moved its weights, and that
\* predicts a number
C6_Witness ==
    /\ JustRestored /\ SnapshotFresh
    /\ Source.learningRate # DefaultLearningRate
    /\ Source.epochs > 0
    /\ \A w \in InitialWeights : heap[Source.weights].weights # w.weights
    /\ \E input \in InputVectors :
          /\ Len(input) = Source.inputSize
          /\ predict(Restored, heap[Restored.weights].weights,
                     heap[Restored.biases].biases, input) # NaN

\* C7: fromJSON(n.toJSON()) has the learning rate, momentum, L2 coefficient,
\* dropout probability, epoch counter, training-loss history and
\* validation-loss history of n, whatever their values (0 included).
C7_RoundTripKeepsHyperparameters ==
    (JustRestored /\ SnapshotFresh) =>
        LET r == View(Restored)
            n == View(Source)
        IN  /\ r.learningRate = n.learningRate
            /\ r.momentum = n.momentum
            /\ r.l2Lambda = n.l2Lambda
            /\ r.dropoutRate = n.dropoutRate
            /\ r.epochs = n.epochs
            /\ r.trainingLoss = n.trainingLoss
            /\ r.validationLoss = n.validationLoss

\* C8: the network fromJSON returns has a velocity entry for every weight and
\* every bias of its layers and no other, and every entry is zero.
C8_RestoredVelocitiesZero ==
    JustRestored =>
        LET weights == heap[Restored.weights].weights
            biases == heap[Restored.biases].biases
            v == Restored.velocities
        IN  /\ DOMAIN v = DOMAIN weights
            /\ \A i \in DOMAIN v :
                  /\ DOMAIN v[i].weight = DOMAIN weights[i]
                  /\ DOMAIN v[i].bias = DOMAIN biases[i]
                  /\ \A j \in DOMAIN v[i].weight :
                        /\ DOMAIN v[i].weight[j] = DOMAIN weights[i][j]
                        /\ \A k \in DOMAIN v[i].weight[j] : v[i].weight[j][k] = 0
                  /\ \A j \in DOMAIN v[i].bias : v[i].bias[j] = 0

\* a network restored from the snapshot of a network with a velocity that is
\* not zero
C8_Witness ==
    /\ JustRestored /\ SnapshotFresh
    /\ \E i \in DOMAIN Source.velocities :
          \E j \in DOMAIN Source.velocities[i].weight :
              /\ Source.velocities[i].bias[j] # 0
              /\ \E k \in DOMAIN Source.velocities[i].weight[j] :
                    Source.velocities[i].weight[j][k] # 0

\* the train call that has just returned
JustTrained == outcome # <<>> /\ outcome[1].op = "train"

\* C9: a train call with epochs = 0 returns with the weights, biases,
\* velocities, training-loss history and validation-loss history it was
\* called with; on a network never trained the histories are empty.
C9_ZeroEpochsChangesNothing ==
    (JustTrained /\ outcome[1].epochs = 0) =>
        LET before == outcome[1].before
            after == outcome[1].after
        IN  /\ after.weights = before.weights
            /\ after.biases = before.biases
            /\ after.velocities = before.velocities
            /\ after.trainingLoss = before.trainingLoss
            /\ after.validationLoss = before.validationLoss

\* a train call with epochs = 0 has returned on a network that an earlier
\* train call left with a velocity that is not zero and a loss history
C9_Witness ==
    /\ JustTrained /\ outcome[1].epochs = 0
    /\ outcome[1].before.trainingLoss # <<>>
    /\ \E i \in DOMAIN outcome[1].before.velocities :
          \E j \in DOMAIN outcome[1].before.velocities[i].bias :
              outcome[1].before.velocities[i].bias[j] # 0

\* C10: a predict or train call given an input vector whose length is not the
\* network's input size fails with a DimensionError and returns no value.
C10_DimensionError ==
    (/\ outcome # <<>>
     /\ outcome[1].op \in {"predict", "train"}
     /\ \E i \in DOMAIN outcome[1].inputs :
           Len(outcome[1].inputs[i]) # nets[outcome[1].net].inputSize)
        => outcome[1].threw

(***************************************************************************)
(* Claims about training and prediction, checked under SpecLong and SpecNN.*)
(***************************************************************************)
NonFinite(x) == x = NaN \/ x >= Infinity \/ x <= NegInfinity

\* a weight, a bias or a velocity of the view is no finite number
ParametersNonFinite(v) ==
    \/ \E i \in DOMAIN v.weights : \E j \in DOMAIN v.weights[i] :
          \E k \in DOMAIN v.weights[i][j] :
              NonFinite(v.weights[i][j][k])
              \/ NonFinite(v.velocities[i].weight[j][k])
    \/ \E i \in DOMAIN v.biases : \E j \in DOMAIN v.biases[i] :
          NonFinite(v.biases[i][j]) \/ NonFinite(v.velocities[i].bias[j])

\* the call the outcome is of was given vectors of the network's input size
WellDimensioned ==
    \A i \in DOMAIN outcome[1].inputs :
        Len(outcome[1].inputs[i]) = nets[outcome[1].net].inputSize

\* the call the outcome is of computed a value that is no finite number
ProducedNonFinite ==
    IF outcome[1].op = "predict" THEN NonFinite(outcome[1].value)
    ELSE \/ ParametersNonFinite(outcome[1].after)
         \/ \E i \in DOMAIN outcome[1].after.trainingLoss :
               /\ i > Len(outcome[1].before.trainingLoss)
               /\ NonFinite(outcome[1].after.trainingLoss[i])
         \/ \E i \in DOMAIN outcome[1].after.validationLoss :
               /\ i > Len(outcome[1].before.validationLoss)
               /\ NonFinite(outcome[1].after.validationLoss[i])

\* C11: a train or predict call in which a value that is no finite number is
\* produced fails with a NumericInstabilityError and leaves the weights, the
\* biases and the velocities as they were; none of them ever holds such a
\* value.  Stated for the calls given vectors of the network's input size.
C11_NumericInstabilityError ==
    /\ \A k \in DOMAIN nets :
          (\A i \in DOMAIN outcome : outcome[i].op = "train"
                                      => WellDimensioned)
              => ~ParametersNonFinite(View(nets[k]))
    /\ (/\ outcome # <<>>
        /\ outcome[1].op \in {"predict", "train"}
        /\ WellDimensioned
        /\ ProducedNonFinite)
           => /\ outcome[1].threw
              /\ outcome[1].op = "train" =>
                    /\ outcome[1].after.weights = outcome[1].before.weights
                    /\ outcome[1].after.biases = outcome[1].before.biases
                    /\ outcome[1].after.velocities
                           = outcome[1].before.velocities

\* an epoch of a train call with validation examples has just ended
JustEpochEnded ==
    /\ train # <<>>
    /\ train[1].epoch > 0
    /\ train[1].pc \in {"epoch", "return"}
    /\ Len(train[1].valInputs) > 0

\* C13: training stops early exactly when the count of consecutive epochs
\* whose validation loss did not improve exceeds the patience; an epoch that
\* improves sets the count to zero and does not stop training.
C13_StopsWhenCountExceedsPatience ==
    JustEpochEnded =>
        LET nn == nets[train[1].net]
        IN  /\ train[1].pc = "return" <=> nn.patienceCounter > nn.patience
            /\ train[1].improved =>
                  nn.patienceCounter = 0 /\ train[1].pc = "epoch"

JustPredicted == outcome # <<>> /\ outcome[1].op = "predict"

\* C16: predict runs the forward pass in inference mode: every dropout mask
\* it records is null, the value it returns is the activation of the output
\* layer with no activation zeroed or rescaled, and the network's weights,
\* biases, velocities, epoch counter, loss histories and early-stopping state
\* are what they were before the call.
C16_PredictIsInference ==
    JustPredicted =>
        LET nn == nets[outcome[1].net]
            result == forward(nn, heap[nn.weights].weights,
                              heap[nn.biases].biases, outcome[1].inputs[1],
                              <<>>)
        IN  /\ \A i \in DOMAIN outcome[1].dropoutMasks :
                  outcome[1].dropoutMasks[i] = <<>>
            /\ Len(outcome[1].dropoutMasks) = Len(nn.hiddenLayers)
            /\ outcome[1].value
                   = result.activations[Len(result.activations)][1]
            /\ View(nn) = outcome[1].before

\* a trained network with a dropout rate predicts a value that is a number
C16_Witness ==
    /\ JustPredicted
    /\ nets[outcome[1].net].dropoutRate > 0
    /\ Len(nets[outcome[1].net].hiddenLayers) > 0
    /\ outcome[1].before.trainingLoss # <<>>
    /\ ~NonFinite(outcome[1].value)
    /\ outcome[1].value # 0

(***************************************************************************)
(* Claims about the runs of the optimizers, checked under SpecConc, Spec   *)
(* and SpecFair.                                                           *)
(***************************************************************************)
\* what a tuneHyperparametersAsync call shares with the instance
Shared(o) == <<o.population, o.bestSolution, o.bestFitness, o.history>>

\* C12: while a tuneHyperparametersAsync call is suspended at a yield point,
\* no step of anything else changes the population, the best solution, the
\* best fitness or the history of its optimizer: on resumption they are what
\* they were at the yield, also with another call on the same instance in
\* flight.
C12_StateKeptAcrossYields ==
    [][\A c \in DOMAIN calls :
          (AtYield(calls[c]) /\ calls'[c] = calls[c])
              => Shared(insts'[calls[c].inst]) = Shared(insts[calls[c].inst])]_vars

RunDone ==
    /\ \A c \in DOMAIN calls :
          /\ calls[c].pc = "done"
          /\ calls[c].result # <<>>
          /\ calls[c].iter <= calls[c].cfg.maxIterations
    /\ ocall # <<>> =>
          /\ ocall.pc = "done"
          /\ ocall.result # <<>>
          /\ ocall.iteration <= qo.maxIterations

\* C15: every optimizer run terminates: tuneHyperparametersAsync and
\* optimize() reach DONE and return a result after at most maxIterations
\* iterations (every train and predict call of a model returns in the model).
C15_RunTerminates == <>RunDone

\* C17: when tunneling fires exactly one dimension is affected: its position
\* and theta become values that do not depend on the ones it had (the same
\* generator state gives the same new values whatever the old ones were),
\* and the other dimensions keep theirs.
C17_TunnelReplacesOneDimension ==
    /\ \A c \in DOMAIN calls :
          LET f == calls[c]
              o == insts[f.inst]
              gbest == IF o.bestSolution = <<>> THEN <<>>
                       ELSE <<o.bestSolution[1].position>>
          IN  f.pc = "update" =>
                \A i \in DOMAIN o.population :
                  LET x == createIndividualRng(f.seed,
                               (i - 1) + f.iter * Len(o.population) + 12345)
                      r == quantumRotate(o.population[i], gbest, f.iter,
                                         f.cfg.maxIterations, x)
                      dim == TunnelDim(r.ind, r.x)
                      t == quantumTunnel(r.ind, r.x, f.cfg.tunnelPct)
                  IN  TunnelFires(r.x, f.cfg.tunnelPct) =>
                        /\ \A d \in DOMAIN t.position :
                              d # dim => /\ t.position[d] = r.ind.position[d]
                                         /\ t.theta[d] = r.ind.theta[d]
                        /\ \A p \in {0, PosScale \div 2, PosScale},
                              th \in {0, ThetaUnits \div 2} :
                              LET u == quantumTunnel(
                                          [r.ind EXCEPT !.position[dim] = p,
                                                        !.theta[dim] = th],
                                          r.x, f.cfg.tunnelPct)
                              IN  /\ u.position[dim] = t.position[dim]
                                  /\ u.theta[dim] = t.theta[dim]
    /\ (ocall # <<>> /\ ocall.pc = "update") =>
          \A jump \in TunnelJumps, theta \in 0..QuarterTurn :
              jump >= 0 => quantumTunnel1(theta, jump) = jump

\* C18: a candidate whose fitness equals the best fitness leaves the stored
\* best solution as it is: among the candidates of the highest fitness the
\* one evaluated first is the one reported.
C18_TieKeepsFirstBest ==
    [][/\ \A c \in DOMAIN calls :
            (/\ calls[c].pc = "score"
             /\ calls'[c].pc # "score"
             /\ calls'[c].last[1].fitness = insts[calls[c].inst].bestFitness)
                => insts'[calls[c].inst].bestSolution
                      = insts[calls[c].inst].bestSolution
       /\ (/\ ocall # <<>>
           /\ ocall.pc = "eval"
           /\ ocall'.population[ocall.i].fitness = qo.bestFitness)
              => /\ qo'.bestParams = qo.bestParams
                 /\ ocall'.bestIndividual = ocall.bestIndividual
       /\ (ocall # <<>> /\ ocall.pc = "best") =>
              \A k \in 1..(ocall'.bestIndividual - 1) :
                  ocall.population[k].fitness
                      < ocall.population[ocall'.bestIndividual].fitness]_vars

\* the second individual has just been scored as high as the first, which is
\* the best, and the stored best solution is the first one's
C18_Witness ==
    \E c \in DOMAIN calls :
        LET f == calls[c]
            o == insts[f.inst]
        IN  /\ f.pc = "update"
            /\ f.last # <<>> /\ f.last[1].scored /\ f.last[1].i = 2
            /\ f.last[1].fitness = o.bestFitness
            /\ o.population[1].fitness = o.bestFitness
            /\ o.population[1].position # o.population[2].position
            /\ o.bestSolution[1].position = o.population[1].position

(***************************************************************************)
(* Claims about the amplitudes, checked under SpecNorm, and about          *)
(* convergence, checked under SpecConv.                                    *)
(***************************************************************************)
\* C19: alpha^2 + beta^2 = 1 for the amplitude pair of every individual and
\* dimension in every iteration, after initialization, rotation and
\* tunneling: exactly where the pair is the cosine and sine of the stored
\* theta, and to within the rounding of the grid (1 percent) where the pair
\* is stored and turned by the rotation matrix.
C19_AmplitudesNormalized ==
    /\ \A c \in DOMAIN calls :
          \A i \in DOMAIN insts[calls[c].inst].population :
            LET individual == insts[calls[c].inst].population[i]
            IN  \A d \in DOMAIN individual.theta :
                  thetaToQstate(individual.theta[d]).alpha2
                      + thetaToQstate(individual.theta[d]).beta2 = PosScale
    /\ (ocall # <<>> /\ ocall.pc # "rotate") =>
          \A k \in DOMAIN ocall.population :
            \A i \in DOMAIN ocall.population[k].quantumStates :
              LET q == ocall.population[k].quantumStates[i]
              IN  /\ q.alpha2 + q.beta2 = ProbScale
                  /\ q = createQuantumState(q.theta)
    /\ (ocall # <<>> /\ ocall.pc = "rotate") =>
          LET q == ocall.individual.qstate
              norm == q.alpha * q.alpha + q.beta * q.beta
          IN  /\ 100 * norm >= 99 * Unit * Unit
              /\ 100 * norm <= 101 * Unit * Unit

\* an amplitude pair turned twice or more, neither amplitude 0
C19_Witness ==
    /\ ocall # <<>>
    /\ ocall.pc = "rotate"
    /\ ocall.iteration >= 2
    /\ ocall.individual.qstate.alpha \notin {0, Unit, -Unit}
    /\ ocall.individual.qstate.beta \notin {0, Unit, -Unit}

\* the spread of the 8 best-fitness values that end at record n is below the
\* threshold (the fitness grid is far coarser than 1e-9)
WindowBelow(history, n) ==
    /\ n >= 8
    /\ \A a, b \in (n - 7)..n :
          history[a].bestFitness = history[b].bestFitness

\* C20: the optimizer stops before the iteration cap only when the spread
\* of the last W best-fitness values has stayed below the threshold for a
\* patience window of consecutive iterations, this iteration and the one
\* before it at the least.
C20_StopsAfterSustainedWindow ==
    \A c \in DOMAIN calls :
        LET f == calls[c]
            history == insts[f.inst].history
        IN  (f.pc \in {"return", "done"} /\ f.early
                 /\ f.iter < f.cfg.maxIterations) =>
              /\ WindowBelow(history, Len(history))
              /\ WindowBelow(history, Len(history) - 1)

(***************************************************************************)
(* Claims about the update step of optimize(), checked under Spec.         *)
(***************************************************************************)
\* the Math.random() draws of an update in which _quantumTunnel never fires
NoTunneling(population, ranges) ==
    [k \in 1..Len(population) |-> [i \in 1..Len(ranges) |-> -1]]

\* C21: an update step of optimize() without tunneling never moves an
\* individual's decoded parameter value away from the best individual's
\* value (the value _updatePopulation reads when it comes to the
\* individual): new >= current when the best is greater, new <= current
\* when the best is smaller.
C21_RotationMovesTowardBest ==
    [][(/\ ocall # <<>>
        /\ ocall.pc = "update"
        /\ ocall'.pc = "eval"
        /\ ocall'.population =
              updatePopulation(ocall.population, ocall.bestIndividual,
                  ocall.ranges,
                  NoTunneling(ocall.population, ocall.ranges), 1))
       => \A k \in DOMAIN ocall.population :
            \A i \in DOMAIN ocall.ranges :
              LET b == ocall.bestIndividual
                  bestValue == IF b < k THEN ocall'.population[b].params[i]
                               ELSE ocall.population[b].params[i]
                  currentValue == ocall.population[k].params[i]
                  newValue == ocall'.population[k].params[i]
              IN  /\ bestValue > currentValue => newValue >= currentValue
                  /\ bestValue < currentValue => newValue <= currentValue]_vars

(***************************************************************************)
(* Claims about the phases of an iteration of tuneHyperparametersAsync,    *)
(* checked under Spec, and about its population, checked under SpecConv.   *)
(***************************************************************************)
\* individual i of the instance o after the operators of iteration iter,
\* steered toward the best solution o holds
Operated(o, f, i) ==
    CHOOSE ind \in {quantumTunnel(r.ind, r.x, f.cfg.tunnelPct) :
               r \in {quantumRotate(o.population[i],
                          IF o.bestSolution = <<>> THEN <<>>
                          ELSE <<o.bestSolution[1].position>>,
                          f.iter, f.cfg.maxIterations,
                          createIndividualRng(f.seed,
                              (i - 1) + f.iter * Len(o.population) + 12345))}} :
        TRUE

\* C22: the phases of an iteration are strictly ordered.  An individual is
\* rotated or tunneled only when every individual has been evaluated in the
\* iteration; each is then steered toward the global best as the
\* iteration's last evaluation left it; and an individual is evaluated in
\* iteration k only when the updates of the k iterations before are complete.
C22_PhasesOrdered ==
    [][\A c \in DOMAIN calls :
         LET f == calls[c]
             o == insts[f.inst]
             moved == \E i \in DOMAIN o.population :
                         \/ insts'[f.inst].population[i].position
                                # o.population[i].position
                         \/ insts'[f.inst].population[i].theta
                                # o.population[i].theta
         IN  /\ (f.pc # "idle" /\ (moved \/ Len(calls'[c].traj) # Len(f.traj))) =>
                   /\ f.evaluations = (f.iter + 1) * Len(o.population)
                   /\ \A i \in DOMAIN o.population :
                         /\ o.population[i].fitness # NegInfinity
                         /\ insts'[f.inst].population[i] = Operated(o, f, i)
                   /\ insts'[f.inst].bestSolution = o.bestSolution
                   /\ Len(calls'[c].traj) = f.iter + 1
             /\ calls'[c].evaluations # f.evaluations =>
                   /\ Len(f.traj) = f.iter
                   /\ Len(o.history) = f.iter
                   /\ f.evaluations = f.iter * Len(o.population) + f.i - 1
                   /\ ~moved]_vars

\* the second iteration of a run with two individuals and a best has
\* started to evaluate
C22_Witness ==
    \E c \in DOMAIN calls :
        /\ calls[c].pc = "score"
        /\ calls[c].iter >= 1
        /\ calls[c].i = 2
        /\ insts[calls[c].inst].bestSolution # <<>>
        /\ insts[calls[c].inst].bestSolution[1].position
              # calls[c].traj[1][1].position

\* C23: every position of every individual stays in [0, 1] and the
\* population keeps the size populationSize of the call, after
\* initialization and after every round of rotation and tunneling.
C23_PositionsInUnitInterval ==
    \A c \in DOMAIN calls :
        LET f == calls[c]
            o == insts[f.inst]
        IN  f.pc # "idle" =>
              /\ Len(o.population) = f.cfg.populationSize
              /\ o.populationSize = f.cfg.populationSize
              /\ \A i \in DOMAIN o.population :
                    /\ Len(o.population[i].position) = Len(f.cfg.bounds)
                    /\ \A d \in DOMAIN o.population[i].position :
                          /\ o.population[i].position[d] >= 0
                          /\ o.population[i].position[d] <= PosScale

\* the last round of operators left a position at 0 that was above 0 before
\* it, with the best's position above 0 as well: rotation moves a position
\* between itself and the best's, so the tunnel moved it, into the clamp of
\* line 451
C23_Witness ==
    \E c \in DOMAIN calls :
        LET f == calls[c]
            o == insts[f.inst]
            n == Len(f.traj)
        IN  /\ f.pc \in {"eval", "return"}
            /\ f.i = 1
            /\ n >= 2
            /\ f.iter = n
            /\ \E i \in DOMAIN o.population :
                  \E d \in DOMAIN o.population[i].position :
                     /\ f.traj[n][i].position[d] = 0
                     /\ f.traj[n - 1][i].position[d] > 0
                     /\ o.bestSolution[1].position[d] > 0

(***************************************************************************)
(* Claims about the mini-batches of train, checked under SpecBatch.        *)
(***************************************************************************)
\* the weights, biases and velocities of a network
Parameters(nn, h) ==
    <<h[nn.weights].weights, h[nn.biases].biases, nn.velocities>>

\* ceil(n / d)
CeilDiv(n, d) == (n + d - 1) \div d

\* C24: in each epoch the mini-batches partition the shuffled training set.
\* The examples processed in the epoch are distinct and lie below
\* floor(N * (1 - validationSplit)), and are all of these when the epoch's
\* batches are done; the parameters change only in the step that ends a
\* batch, once per batch, to the averaged update of the gradients that all
\* of the batch's examples give with the parameters the batch began with.
C24_BatchesPartitionTrainingSet ==
    [][train' # <<>> =>
         LET t == train'[1]
             splitIdx == (Len(t.inputs) * (10 - t.validationSplit)) \div 10
             nn == nets[t.net]
             changed == Parameters(nets'[t.net], heap') # Parameters(nn, heap)
             batchStep == train # <<>> /\ t.numBatches = train[1].numBatches + 1
         IN  /\ \A a, b \in DOMAIN t.processed :
                   t.processed[a] = t.processed[b] => a = b
             /\ \A a \in DOMAIN t.processed :
                   t.processed[a] \in 1..splitIdx
             /\ t.numBatches = CeilDiv(Len(t.processed), t.batchSize)
             /\ (t.pc = "batch" /\ t.i >= splitIdx) =>
                   {t.processed[a] : a \in DOMAIN t.processed} = 1..splitIdx
             /\ changed => batchStep
             /\ batchStep =>
                   LET old == train[1]
                       n == Len(t.processed) - Len(old.processed)
                       batch == SubSeq(t.processed, Len(old.processed) + 1,
                                       Len(t.processed))
                       weights == heap[nn.weights].weights
                       biases == heap[nn.biases].biases
                       zero == [weightGrads |->
                                   [l \in DOMAIN weights |->
                                       [m \in DOMAIN weights[l] |->
                                           [k \in DOMAIN weights[l][m] |-> 0]]],
                                biasGrads |->
                                   [l \in DOMAIN biases |->
                                       [m \in DOMAIN biases[l] |-> 0]]]
                   IN  /\ n = Min(t.batchSize, splitIdx - Len(old.processed))
                       /\ n >= 1
                       /\ SubSeq(t.processed, 1, Len(old.processed))
                             = old.processed
                       /\ \E draws \in [1..n -> DrawChoices(nn)] :
                             LET r == BatchGradients(nn, weights, biases,
                                         [j \in 1..n |-> t.inputs[batch[j]]],
                                         [j \in 1..n |-> old.trainTargets[batch[j]]],
                                         draws, 1,
                                         [acc |-> zero, epochLoss |-> 0])
                                 u == updateWeights(nn, weights, biases,
                                                    r.acc, n)
                             IN  Parameters(nets'[t.net], heap')
                                   = <<u.weights, u.biases, u.velocities>>]_vars

\* an epoch of three training examples has had its two batches, of 2 and
\* of 1, and the weights have moved
C24_Witness ==
    /\ train # <<>>
    /\ train[1].pc = "batch"
    /\ train[1].numBatches = 2
    /\ Len(train[1].processed) = 3
    /\ Len(train[1].inputs) = 4
    /\ train[1].epoch >= 1
    /\ heap[nets[train[1].net].weights].weights # train[1].before.weights

(***************************************************************************)
(* Claims about the stored best of tuneHyperparametersAsync, checked under *)
(* Spec.                                                                   *)
(***************************************************************************)
\* C25: the stored best solution and bestFitness belong together.  They
\* change only in the step that scores an individual, and then to the
\* position the individual had when its model was built, the parameters
\* that model was given, and the fitness the evaluation returned; rotation
\* and tunneling leave them as they are, and the call returns them.
C25_BestBelongsToItsEvaluation ==
    [][\A c \in DOMAIN calls :
         LET f == calls[c]
             o == insts[f.inst]
             p == insts'[f.inst]
         IN  /\ (f.pc # "idle" /\ <<p.bestSolution, p.bestFitness>>
                                    # <<o.bestSolution, o.bestFitness>>) =>
                   /\ f.pc = "score"
                   /\ calls'[c].last[1].scored
                   /\ p.bestFitness = calls'[c].last[1].fitness
                   /\ p.bestFitness > o.bestFitness
                   /\ p.bestSolution =
                         <<[position |-> f.individual[1].position,
                            params |-> f.model[1].params]>>
                   /\ f.model[1].params =
                         mapPositionToParams(f.individual[1].position,
                                             f.cfg.bounds)
             /\ p.bestSolution = <<>> <=> p.bestFitness = NegInfinity
             /\ calls'[c].pc = "done" =>
                   /\ calls'[c].result[1].fitness = p.bestFitness
                   /\ p.bestSolution # <<>>
                   /\ calls'[c].result[1].solution = p.bestSolution[1].params]_vars

\* a call has returned its best after two rounds of operators or more, with
\* no individual left at the best's position
C25_Witness ==
    \E c \in DOMAIN calls :
        LET f == calls[c]
            o == insts[f.inst]
        IN  /\ f.pc = "done"
            /\ f.iter >= 2
            /\ f.result[1].solution = o.bestSolution[1].params
            /\ \A i \in DOMAIN o.population :
                  o.population[i].position # o.bestSolution[1].position

(***************************************************************************)
(* Claims about the training state a network keeps between train calls,    *)
(* checked under SpecLong.                                                 *)
(***************************************************************************)
\* C26: between train calls the epoch counter of a network is the number of
\* entries of its training-loss history, however the calls ended.
C26_EpochsCountLossEntries ==
    train = <<>> =>
       \A k \in DOMAIN nets :
           nets[k].epochs = Len(heap[nets[k].trainingLoss].trainingLoss)

\* C27: patience applies afresh to each train call.  A call that asked for
\* at least patience epochs and stopped early ran at least patience epochs
\* (it added that many entries to the training-loss history), however the
\* earlier calls on the network ended.
C27_PatienceAfreshEachCall ==
    (/\ JustTrained
     /\ outcome[1].early
     /\ outcome[1].epochs >= nets[outcome[1].net].patience) =>
        Len(outcome[1].after.trainingLoss)
            - Len(outcome[1].before.trainingLoss)
          >= nets[outcome[1].net].patience

(***************************************************************************)
(* Claims about snapshots, checked under SpecNN.                           *)
(***************************************************************************)
\* the arrays of a snapshot, by value
SnapshotArrays(json) ==
    [weights |-> heap[json.weights].weights,
     biases |-> heap[json.biases].biases,
     trainingLoss |-> heap[json.trainingLoss].trainingLoss,
     validationLoss |-> heap[json.validationLoss].validationLoss]

\* C28: a snapshot is isolated from the live networks.  The weights, biases
\* and loss histories of the object toJSON returned stay what they were
\* when it was taken, and no network other than the one it was taken from
\* holds an array the snapshot holds.
C28_SnapshotIsolated ==
    \A s \in DOMAIN snaps :
        LET json == snaps[s].json
        IN  /\ SnapshotArrays(json) =
                  [weights |-> snaps[s].was.weights,
                   biases |-> snaps[s].was.biases,
                   trainingLoss |-> snaps[s].was.trainingLoss,
                   validationLoss |-> snaps[s].was.validationLoss]
            /\ \A k \in DOMAIN nets \ {snaps[s].of} :
                  /\ nets[k].weights # json.weights
                  /\ nets[k].biases # json.biases
                  /\ nets[k].trainingLoss # json.trainingLoss
                  /\ nets[k].validationLoss # json.validationLoss

(***************************************************************************)
(* Claims about trainModelAsync and about repeated optimize() calls,       *)
(* checked under Spec.                                                     *)
(***************************************************************************)
\* C29: for a model whose train is synchronous and does not throw,
\* the epochs trainModelAsync asks of model.train for a candidate sum to
\* epochsPerCandidate.
C29_TrainsEpochsPerCandidate ==
    \A c \in DOMAIN calls :
        LET f == calls[c]
        IN  (f.pc = "score" /\ f.cfg.kind = "sync" /\ ~f.model[1].threw) =>
               SumSeq(f.model[1].trainCalls) = f.cfg.epochsPerCandidate

\* C30: an optimize() call returns what its own evaluations determine, as a
\* new instance would: a history of one best fitness for the initial
\* population and one for each iteration it ran, whose last entry is the
\* fitness it returns, and their number as its iteration count.
C30_OptimizeRunsIndependent ==
    (ocall # <<>> /\ ocall.pc = "done") =>
        LET r == ocall.result[1]
        IN  /\ Len(r.history) = ocall.iteration + 1
            /\ r.iterations = ocall.iteration + 1
            /\ r.fitness = r.history[Len(r.history)]
            /\ r.params = qo.bestParams

====
